---- MODULE Spec2Model ----
(***************************************************************************)
(* A model of the code indexing and retrieval engine of codebase-rag:      *)
(* the FAISS-backed vector store (backend/retrieval/vector_store.py), the  *)
(* indexer (backend/retrieval/indexer.py), the embedding generator         *)
(* (backend/retrieval/embeddings.py) and the multi-stage retriever         *)
(* (backend/retrieval/retriever.py).                                       *)
(*                                                                         *)
(* Conventions.  Python lists are sequences; a list position p of the      *)
(* code (0-based) is element p + 1 of the sequence.  A metadata dict and a *)
(* filter dict are functions from their keys to values; the empty function *)
(* is the empty dict, which Python treats as false exactly like None.      *)
(* id_to_index is the set of its <<id, position>> items.  The faiss flat   *)
(* L2 index is its dimension d and the sequence xb of the stored vectors;  *)
(* its distances are squared Euclidean distances.                          *)
(***************************************************************************)
EXTENDS Integers, Sequences, FiniteSets, TLC

VARIABLES store, disk, saved, last, pc, loc, nsaves

vars == <<store, disk, saved, last, pc, loc, nsaves>>

(***************************************************************************)
(* Bounds of the model.                                                    *)
(***************************************************************************)
MaxVectors == 2   \* entries the index, and the metadata array, hold at most
MaxBatch == MaxVectors   \* records passed to one add_vectors call at most
MaxSaves == 1     \* save calls in one run at most
MaxK == MaxVectors       \* largest k of a search

(***************************************************************************)
(* The inputs: sample records (vector, metadata, id), store dimensions,    *)
(* query vectors and filters.                                              *)
(***************************************************************************)
Dims == {1, 2}

EmptyDict == [key \in {} |-> ""]

MetaGo == [language |-> "go", type |-> "function"]
MetaPy == [language |-> "python", type |-> "function"]
MetaCls == [type |-> "class"]

Samples ==
    { [vector |-> <<1, 0>>, metadata |-> MetaGo, id |-> "a"],
      [vector |-> <<0, 1>>, metadata |-> MetaCls, id |-> "b"],
      [vector |-> <<1>>, metadata |-> MetaPy, id |-> "a"] }

Queries == { <<1, 0>>, <<0, 1>>, <<0>> }

Filters ==
    { EmptyDict,
      [language |-> "go"],
      [language |-> "python", type |-> "function"] }

SeqsUpTo(S, n) == UNION { [1..m -> S] : m \in 0..n }

Min(a, b) == IF a <= b THEN a ELSE b

(***************************************************************************)
(* FAISSVectorStore.__init__                                               *)
(***************************************************************************)
NewStore(dimension) ==
    [ dimension |-> dimension,
      index |-> [d |-> dimension, xb |-> <<>>],
      metadata_store |-> <<>>,
      id_to_index |-> {} ]

ntotal(s) == Len(s.index.xb)

(***************************************************************************)
(* FAISSVectorStore.get_stats                                              *)
(***************************************************************************)
get_stats(s) ==
    [ total_vectors |-> ntotal(s),
      dimension |-> s.dimension,
      metadata_count |-> Len(s.metadata_store) ]

(***************************************************************************)
(* FAISSVectorStore.add_vectors.  np.array(vectors, dtype=float32) raises  *)
(* on a ragged list, and faiss's index.add raises when the row length is   *)
(* not the index's d; both happen before anything is stored.  The loop     *)
(* then appends each metadata and, when ids are given, records             *)
(* ids[i] -> start_idx + i; ids[i] raises past the end of a short ids.     *)
(***************************************************************************)
Ragged(vectors) ==
    \E i, j \in 1..Len(vectors) : Len(vectors[i]) # Len(vectors[j])

SetId_keeping_first(map, id, pos) ==
    IF \E item \in map : item[1] = id THEN map ELSE map \cup { <<id, pos>> }

SetId(map, id, pos) ==
    { item \in map : item[1] # id } \cup { <<id, pos>> }

RECURSIVE StoreMetadata(_, _, _, _, _)
StoreMetadata(s, metadata, ids, start_idx, i) ==
    IF i > Len(metadata) THEN [raised |-> FALSE, store |-> s]
    ELSE LET s1 == [s EXCEPT !.metadata_store = Append(@, metadata[i])]
         IN  IF ids = <<>> THEN StoreMetadata(s1, metadata, ids, start_idx, i + 1)
             ELSE IF i > Len(ids) THEN [raised |-> TRUE, store |-> s1]
             ELSE StoreMetadata(
                      [s1 EXCEPT !.id_to_index = SetId(@, ids[i], start_idx + i - 1)],
                      metadata, ids, start_idx, i + 1)

add_vectors(s, vectors, metadata, ids) ==
    IF vectors = <<>> THEN [raised |-> FALSE, store |-> s]
    ELSE IF Ragged(vectors) THEN [raised |-> TRUE, store |-> s]
    ELSE IF Len(vectors[1]) # s.index.d THEN [raised |-> TRUE, store |-> s]
    ELSE StoreMetadata([s EXCEPT !.index.xb = @ \o vectors],
                       metadata, ids, ntotal(s), 1)

(***************************************************************************)
(* faiss IndexFlatL2.search(query, n): the n stored vectors nearest to the *)
(* query as (squared L2 distance, position) pairs, nearest first; vectors  *)
(* at the same distance come in the order of their positions.  It raises   *)
(* when the query's length is not the index's d.                           *)
(***************************************************************************)
RECURSIVE SqDistFrom(_, _, _)
SqDistFrom(a, b, i) ==
    IF i > Len(a) THEN 0
    ELSE (a[i] - b[i]) * (a[i] - b[i]) + SqDistFrom(a, b, i + 1)

SqDist(a, b) == SqDistFrom(a, b, 1)

Nearer(xb, q, i, j) ==
    \/ SqDist(xb[i], q) < SqDist(xb[j], q)
    \/ SqDist(xb[i], q) = SqDist(xb[j], q) /\ i < j

index_search(index, q, n) ==
    [ r \in 1..n |->
        LET pos == CHOOSE i \in 1..Len(index.xb) :
                       Cardinality({ j \in 1..Len(index.xb) : Nearer(index.xb, q, j, i) }) = r - 1
        IN  [dist |-> SqDist(index.xb[pos], q), idx |-> pos - 1] ]

(***************************************************************************)
(* FAISSVectorStore._matches_filter                                        *)
(***************************************************************************)
matches_filter_lenient(metadata, filter_dict) ==
    \A key \in DOMAIN filter_dict :
        key \in DOMAIN metadata => metadata[key] = filter_dict[key]

matches_filter(metadata, filter_dict) ==
    \A key \in DOMAIN filter_dict :
        /\ key \in DOMAIN metadata
        /\ metadata[key] = filter_dict[key]

(***************************************************************************)
(* FAISSVectorStore.search                                                 *)
(***************************************************************************)
WidenFactor == 10

RECURSIVE CollectResults(_, _, _, _, _, _)
CollectResults(s, found, filter_dict, k, i, results) ==
    IF i > Len(found) THEN results
    ELSE IF found[i].idx < 0 \/ found[i].idx >= Len(s.metadata_store)
         THEN CollectResults(s, found, filter_dict, k, i + 1, results)
    ELSE LET metadata == s.metadata_store[found[i].idx + 1]
         IN  IF DOMAIN filter_dict # {} /\ ~matches_filter(metadata, filter_dict)
             THEN CollectResults(s, found, filter_dict, k, i + 1, results)
             ELSE LET grown == Append(results,
                                   [metadata |-> metadata,
                                    score |-> found[i].dist,
                                    index |-> found[i].idx])
                  IN  IF Len(grown) >= k THEN grown
                      ELSE CollectResults(s, found, filter_dict, k, i + 1, grown)

search_unwidened(s, query_vector, k, filter_dict) ==
    IF ntotal(s) = 0 THEN [raised |-> FALSE, results |-> <<>>]
    ELSE IF Len(query_vector) # s.index.d THEN [raised |-> TRUE, results |-> <<>>]
    ELSE LET found == index_search(s.index, query_vector, Min(k, ntotal(s)))
         IN  [raised |-> FALSE,
              results |-> CollectResults(s, found, filter_dict, k, 1, <<>>)]

search(s, query_vector, k, filter_dict) ==
    IF ntotal(s) = 0 THEN [raised |-> FALSE, results |-> <<>>]
    ELSE IF Len(query_vector) # s.index.d THEN [raised |-> TRUE, results |-> <<>>]
    ELSE LET search_k == IF DOMAIN filter_dict # {} THEN k * WidenFactor ELSE k
             found == index_search(s.index, query_vector, Min(search_k, ntotal(s)))
         IN  [raised |-> FALSE,
              results |-> CollectResults(s, found, filter_dict, k, 1, <<>>)]

(***************************************************************************)
(* search puts the stored metadata dict itself, not a copy, into each      *)
(* result ("metadata": metadata with metadata = self.metadata_store[idx]). *)
(* A caller that holds the results holds the stored records: the store     *)
(* after the call has, at each returned index, the dict as the caller left *)
(* it.                                                                     *)
(***************************************************************************)
metadata_held_by(s, results) ==
    [s EXCEPT !.metadata_store =
        [ j \in 1..Len(s.metadata_store) |->
            IF \E i \in 1..Len(results) : results[i].index = j - 1
            THEN results[CHOOSE i \in 1..Len(results) : results[i].index = j - 1].metadata
            ELSE s.metadata_store[j] ] ]

(***************************************************************************)
(* The directory that save writes and load reads: the index artifact       *)
(* (faiss_index.bin) and the metadata artifact (metadata.pkl).  An         *)
(* artifact is missing, unreadable ("corrupt") or holds what was written.  *)
(***************************************************************************)
NoIndexFile == [st |-> "missing", index |-> [d |-> 0, xb |-> <<>>]]

NoMetadataFile ==
    [st |-> "missing", metadata_store |-> <<>>, id_to_index |-> {}, dimension |-> 0]

EmptyDir == [index_file |-> NoIndexFile, metadata_file |-> NoMetadataFile]

(***************************************************************************)
(* FAISSVectorStore.save.  It writes the index artifact, then opens the    *)
(* metadata artifact for writing (which truncates it) and pickles the      *)
(* metadata, the id lookup and the dimension into it.  outcome names where *)
(* the write stops: "ok" (both written), "fail_index" (write_index raises  *)
(* and leaves an unreadable index artifact) or "fail_metadata" (the index  *)
(* artifact is written, the dump raises and leaves a truncated file).      *)
(***************************************************************************)
SaveOutcomes == {"ok", "fail_index", "fail_metadata"}

save_without_ids(s, dir, outcome) ==
    [ raised |-> outcome # "ok",
      disk |-> [ index_file |-> [st |-> "ok", index |-> s.index],
                 metadata_file |-> [st |-> "ok",
                                    metadata_store |-> s.metadata_store,
                                    id_to_index |-> {},
                                    dimension |-> s.dimension] ] ]

save(s, dir, outcome) ==
    IF outcome = "fail_index"
    THEN [raised |-> TRUE,
          disk |-> [dir EXCEPT !.index_file = [NoIndexFile EXCEPT !.st = "corrupt"]]]
    ELSE LET written == [dir EXCEPT !.index_file = [st |-> "ok", index |-> s.index]]
         IN  IF outcome = "fail_metadata"
             THEN [raised |-> TRUE,
                   disk |-> [written EXCEPT
                                !.metadata_file = [NoMetadataFile EXCEPT !.st = "corrupt"]]]
             ELSE [raised |-> FALSE,
                   disk |-> [written EXCEPT
                                !.metadata_file =
                                    [st |-> "ok",
                                     metadata_store |-> s.metadata_store,
                                     id_to_index |-> s.id_to_index,
                                     dimension |-> s.dimension]]]

(***************************************************************************)
(* FAISSVectorStore.load.  A missing index artifact raises                 *)
(* FileNotFoundError and an unreadable one makes faiss.read_index raise,   *)
(* both before any assignment.  self.index is then assigned; opening or    *)
(* unpickling the metadata artifact comes after it, and only when that     *)
(* succeeds are metadata_store, id_to_index and dimension assigned.        *)
(***************************************************************************)
load(s, dir) ==
    IF dir.index_file.st # "ok" THEN [raised |-> TRUE, store |-> s]
    ELSE LET s1 == [s EXCEPT !.index = dir.index_file.index]
         IN  IF dir.metadata_file.st # "ok" THEN [raised |-> TRUE, store |-> s1]
             ELSE [raised |-> FALSE,
                   store |-> [s1 EXCEPT
                                !.metadata_store = dir.metadata_file.metadata_store,
                                !.id_to_index = dir.metadata_file.id_to_index,
                                !.dimension = dir.metadata_file.dimension]]

(***************************************************************************)
(* The store and its directory: one action per call of the store's API.    *)
(* last records the call just made: its arguments, whether it raised and   *)
(* what it returned.  saved remembers the store as it was at the latest    *)
(* save that wrote both artifacts (valid is false before any such save and *)
(* after a save that failed); nsaves counts the save calls.                 *)
(***************************************************************************)
Idle == [op |-> "idle"]

NothingSaved == [valid |-> FALSE, store |-> NewStore(0)]

Field(records, name) == [i \in 1..Len(records) |-> records[i][name]]

Construct ==
    \E dimension \in Dims :
        /\ store' = NewStore(dimension)
        /\ last' = [op |-> "init", raised |-> FALSE, dimension |-> dimension]
        /\ UNCHANGED <<disk, saved, pc, loc, nsaves>>

AddVectors ==
    \E records \in SeqsUpTo(Samples, MaxBatch), with_ids \in BOOLEAN :
        LET vectors == Field(records, "vector")
            metadata == Field(records, "metadata")
            ids == IF with_ids THEN Field(records, "id") ELSE <<>>
            done == add_vectors(store, vectors, metadata, ids)
        IN  /\ ntotal(store) + Len(records) <= MaxVectors
            /\ Len(store.metadata_store) + Len(records) <= MaxVectors
            /\ store' = done.store
            /\ last' = [op |-> "add_vectors", raised |-> done.raised,
                        mismatch |-> \E i \in 1..Len(vectors) :
                                        Len(vectors[i]) # store.dimension]
            /\ UNCHANGED <<disk, saved, pc, loc, nsaves>>

Search ==
    \E query_vector \in Queries, k \in 1..MaxK, filter_dict \in Filters :
        \E done \in { search(store, query_vector, k, filter_dict) } :
            /\ last' = [op |-> "search", raised |-> done.raised,
                        query_vector |-> query_vector, k |-> k,
                        filter_dict |-> filter_dict, results |-> done.results]
            /\ store' = metadata_held_by(store, done.results)
            /\ UNCHANGED <<disk, saved, pc, loc, nsaves>>

Save ==
    \E outcome \in SaveOutcomes :
        LET done == save(store, disk, outcome)
        IN  /\ disk' = done.disk
            /\ saved' = IF done.raised THEN NothingSaved
                         ELSE [valid |-> TRUE, store |-> store]
            /\ last' = [op |-> "save", raised |-> done.raised, outcome |-> outcome]
            /\ UNCHANGED <<store, pc, loc>>
            /\ nsaves < MaxSaves /\ nsaves' = nsaves + 1

Load ==
    LET done == load(store, disk)
    IN  /\ store' = done.store
        /\ last' = [op |-> "load", raised |-> done.raised,
                    fresh |-> IF store = NewStore(store.dimension)
                              THEN store.dimension ELSE 0]
        /\ UNCHANGED <<disk, saved, pc, loc, nsaves>>

Init ==
    /\ store \in { NewStore(dimension) : dimension \in Dims }
    /\ disk = EmptyDir
    /\ saved = NothingSaved
    /\ last = [op |-> "init", raised |-> FALSE, dimension |-> store.dimension]
    /\ pc = Idle
    /\ loc = Idle
    /\ nsaves = 0

Next ==
    \/ Construct
    \/ AddVectors
    \/ Save
    \/ Load

Spec == Init /\ [][Next]_vars

(***************************************************************************)
(* add_vectors calls that pass one id per vector, as index_chunks does     *)
(* with the chunk ids: two of the records share the id "a" (two chunks of  *)
(* identical content) and differ in their metadata.  last keeps the call's *)
(* records and the number of vectors before the call.                      *)
(***************************************************************************)
IdSamples ==
    { [vector |-> <<1, 0>>, metadata |-> MetaGo, id |-> "a"],
      [vector |-> <<0, 1>>, metadata |-> MetaCls, id |-> "b"],
      [vector |-> <<1, 1>>, metadata |-> MetaPy, id |-> "a"] }

AddVectorsWithIds ==
    \E records \in SeqsUpTo(IdSamples, MaxBatch) :
        \E done \in { add_vectors(store, Field(records, "vector"),
                                  Field(records, "metadata"), Field(records, "id")) } :
            /\ ntotal(store) + Len(records) <= MaxVectors + 1
            /\ store' = done.store
            /\ last' = [op |-> "add_vectors", raised |-> done.raised,
                        mismatch |-> \E i \in 1..Len(records) :
                                        Len(records[i].vector) # store.dimension,
                        records |-> records, start_idx |-> ntotal(store)]
            /\ UNCHANGED <<disk, saved, pc, loc, nsaves>>

NextAppend == AddVectorsWithIds

SpecAppend == Init /\ [][NextAppend]_vars

(***************************************************************************)
(* The serving process (api/main.py): initialize_system constructs the     *)
(* store and, when the index directory exists, loads it, logging and       *)
(* swallowing whatever load raises; from then on requests add to the store *)
(* and search it.  The directory is what an earlier save of some store     *)
(* left there.                                                             *)
(***************************************************************************)
WrittenStores ==
    { add_vectors(NewStore(dimension),
                  Field(records, "vector"), Field(records, "metadata"),
                  Field(records, "id")).store :
          dimension \in Dims, records \in SeqsUpTo(Samples, MaxBatch) }

Directories ==
    { EmptyDir } \cup
    { save(s, EmptyDir, outcome).disk : s \in WrittenStores, outcome \in SaveOutcomes }

initialize_system(dimension, dir) ==
    IF dir = EmptyDir THEN [raised |-> FALSE, store |-> NewStore(dimension)]
    ELSE load(NewStore(dimension), dir)

InitServing ==
    \E dimension \in Dims, dir \in Directories :
        LET done == initialize_system(dimension, dir)
        IN  /\ store = done.store
            /\ disk = dir
            /\ saved = NothingSaved
            /\ last = [op |-> "load", raised |-> done.raised, fresh |-> dimension]
            /\ pc = Idle
            /\ loc = Idle
            /\ nsaves = 0

NextServing ==
    \/ AddVectors
    \/ Search

SpecSearch == InitServing /\ [][NextServing]_vars

(***************************************************************************)
(* Searches of a store that holds more vectors than a filtered search      *)
(* examines: WidenFactor + 1 records of dimension 1 (and stores of two     *)
(* records), added by one add_vectors call.  The record at position i has  *)
(* the vector <<n + 1 - i>>, so the positions are not in distance order    *)
(* for the query <<0>>; at most MaxK of the records are go records.        *)
(***************************************************************************)
WideSizes == {2, WidenFactor + 1}

WideRecords(n) ==
    { [i \in 1..n |-> [vector |-> <<n + 1 - i>>, metadata |-> metadata[i]]] :
          metadata \in { m \in [1..n -> {MetaGo, MetaPy}] :
                             Cardinality({ i \in 1..n : m[i] = MetaGo }) <= MaxK } }

WideStores ==
    { add_vectors(NewStore(1), Field(records, "vector"), Field(records, "metadata"),
                  <<>>).store :
          records \in UNION { WideRecords(n) : n \in WideSizes } }

InitWidened ==
    /\ store \in WideStores
    /\ disk = EmptyDir
    /\ saved = NothingSaved
    /\ last = [op |-> "init", raised |-> FALSE, dimension |-> store.dimension]
    /\ pc = Idle
    /\ loc = Idle
    /\ nsaves = 0

SearchOnce ==
    /\ last.op = "init"
    /\ Search

NextWidened == SearchOnce

SpecWidened == InitWidened /\ [][NextWidened]_vars

(***************************************************************************)
(* Concurrent callers of add_vectors on one store.  The method takes no    *)
(* lock, so its statements interleave with those of another caller:        *)
(*   call  lines 75-83: the empty check, np.array, start_idx = ntotal      *)
(*   add   line 84:     self.index.add(vectors_np)                         *)
(*   meta  line 88:     self.metadata_store.append(meta)                   *)
(*   id    line 91:     self.id_to_index[ids[i]] = start_idx + i           *)
(* pc[t] is the statement caller t executes next and loc[t] its arguments, *)
(* its start_idx and its loop index.                                       *)
(***************************************************************************)
Callers == {"t1", "t2"}

NoLocals == [vectors |-> <<>>, metadata |-> <<>>, ids |-> <<>>, start_idx |-> 0, i |-> 1]

Pending(t) == IF pc[t] = "add" THEN Len(loc[t].vectors) ELSE 0

RECURSIVE SumPending(_)
SumPending(ts) ==
    IF ts = {} THEN 0
    ELSE LET t == CHOOSE t \in ts : TRUE
         IN  Pending(t) + SumPending(ts \ {t})

CallAddVectors(t) ==
    \E records \in SeqsUpTo(Samples, MaxBatch), with_ids \in BOOLEAN :
        LET vectors == Field(records, "vector")
        IN  /\ pc[t] = "idle"
            /\ records # <<>>
            /\ ~Ragged(vectors)
            /\ ntotal(store) + SumPending(Callers) + Len(records) <= MaxVectors
            /\ loc' = [loc EXCEPT ![t] =
                          [vectors |-> vectors,
                           metadata |-> Field(records, "metadata"),
                           ids |-> IF with_ids THEN Field(records, "id") ELSE <<>>,
                           start_idx |-> ntotal(store),
                           i |-> 1]]
            /\ pc' = [pc EXCEPT ![t] = "add"]
            /\ UNCHANGED <<store, disk, saved, last, nsaves>>

IndexAdd(t) ==
    /\ pc[t] = "add"
    /\ IF Len(loc[t].vectors[1]) # store.index.d
       THEN /\ pc' = [pc EXCEPT ![t] = "idle"]
            /\ loc' = [loc EXCEPT ![t] = NoLocals]
            /\ UNCHANGED store
       ELSE /\ store' = [store EXCEPT !.index.xb = @ \o loc[t].vectors]
            /\ pc' = [pc EXCEPT ![t] = "meta"]
            /\ UNCHANGED loc
    /\ UNCHANGED <<disk, saved, last, nsaves>>

AppendMetadata(t) ==
    /\ pc[t] = "meta"
    /\ IF loc[t].i > Len(loc[t].metadata)
       THEN /\ pc' = [pc EXCEPT ![t] = "idle"]
            /\ loc' = [loc EXCEPT ![t] = NoLocals]
            /\ UNCHANGED store
       ELSE /\ store' = [store EXCEPT
                            !.metadata_store = Append(@, loc[t].metadata[loc[t].i])]
            /\ IF loc[t].ids = <<>>
               THEN /\ loc' = [loc EXCEPT ![t].i = @ + 1]
                    /\ UNCHANGED pc
               ELSE /\ pc' = [pc EXCEPT ![t] = "id"]
                    /\ UNCHANGED loc
    /\ UNCHANGED <<disk, saved, last, nsaves>>

RecordId(t) ==
    /\ pc[t] = "id"
    /\ store' = [store EXCEPT
                    !.id_to_index = SetId(@, loc[t].ids[loc[t].i],
                                          loc[t].start_idx + loc[t].i - 1)]
    /\ loc' = [loc EXCEPT ![t].i = @ + 1]
    /\ pc' = [pc EXCEPT ![t] = "meta"]
    /\ UNCHANGED <<disk, saved, last, nsaves>>

InitConcurrent ==
    /\ store \in { NewStore(dimension) : dimension \in Dims }
    /\ disk = EmptyDir
    /\ saved = NothingSaved
    /\ last = [op |-> "init", raised |-> FALSE, dimension |-> store.dimension]
    /\ pc = [t \in Callers |-> "idle"]
    /\ loc = [t \in Callers |-> NoLocals]
    /\ nsaves = 0

NextConcurrent ==
    \E t \in Callers :
        \/ CallAddVectors(t)
        \/ IndexAdd(t)
        \/ AppendMetadata(t)
        \/ RecordId(t)

SpecConcurrent == InitConcurrent /\ [][NextConcurrent]_vars

(***************************************************************************)
(* Texts are sequences of characters.  CodeChunk: content, metadata and    *)
(* the chunk_id that _generate_id derives from the content (an md5 digest, *)
(* modelled as an injective table on the sample contents).                 *)
(***************************************************************************)
TextAdd == <<"a", "d", "d">>
TextX == <<"x">>

generate_id(content) ==
    CASE content = TextAdd -> "chunk_add"
      [] content = TextX -> "chunk_x"
      [] OTHER -> "chunk_other"

CodeChunk_id_from_metadata(content, metadata) ==
    [content |-> content, metadata |-> metadata,
     chunk_id |-> IF metadata.start_line = 0 THEN generate_id(content) ELSE "chunk_line"]

CodeChunk(content, metadata) ==
    [content |-> content, metadata |-> metadata, chunk_id |-> generate_id(content)]

ChunkSamples ==
    { CodeChunk(TextAdd, [file_path |-> <<"src", "a.py">>, language |-> "python",
                          type |-> "function", name |-> TextAdd,
                          start_line |-> 1, end_line |-> 2]),
      CodeChunk(TextX, [file_path |-> <<"b.go">>, language |-> "go",
                        type |-> "line_based", start_line |-> 1, end_line |-> 1]) }

MaxChunks == MaxVectors + 1

BatchSizes == 1..MaxVectors

(***************************************************************************)
(* The embedding provider: a fixed function from a text to a vector of the *)
(* provider's dimension.  None, the result of a failed call, is the empty  *)
(* sequence.                                                               *)
(***************************************************************************)
None == <<>>

provider_embedding(text) ==
    CASE text = TextAdd -> <<1, 0>>
      [] text = TextX -> <<0, 1>>
      [] OTHER -> <<1, 1>>

(***************************************************************************)
(* EmbeddingGenerator.generate_embeddings: the texts go to the provider in *)
(* consecutive batches of batch_size; a batch whose call raises yields     *)
(* None for each of its texts.  failing is the set of the batches (counted *)
(* from 0) whose provider call raises.                                     *)
(***************************************************************************)
generate_batch_dropping(batch, fails) ==
    IF fails THEN <<>> ELSE [ j \in 1..Len(batch) |-> provider_embedding(batch[j]) ]

generate_batch(batch, fails) ==
    [ j \in 1..Len(batch) |-> IF fails THEN None ELSE provider_embedding(batch[j]) ]

RECURSIVE EmbedFrom(_, _, _, _, _)
EmbedFrom(texts, batch_size, failing, i, embeddings) ==
    IF i >= Len(texts) THEN embeddings
    ELSE LET batch == SubSeq(texts, i + 1, Min(i + batch_size, Len(texts)))
         IN  EmbedFrom(texts, batch_size, failing, i + batch_size,
                       embeddings \o generate_batch(batch, (i \div batch_size) \in failing))

generate_embeddings(texts, batch_size, failing) ==
    EmbedFrom(texts, batch_size, failing, 0, <<>>)

(***************************************************************************)
(* Indexer.index_chunks.  calls lists the add_vectors calls the run makes  *)
(* on the store; the run raises when its add_vectors call raises.          *)
(***************************************************************************)
RECURSIVE ValidData_reversed(_, _, _, _)
ValidData_reversed(embeddings, metadatas, ids, i) ==
    IF i > Len(embeddings) \/ i > Len(metadatas) \/ i > Len(ids) THEN <<>>
    ELSE IF embeddings[i] # None
         THEN ValidData_reversed(embeddings, metadatas, ids, i + 1)
                  \o <<[vector |-> embeddings[i], metadata |-> metadatas[i], id |-> ids[i]]>>
         ELSE ValidData_reversed(embeddings, metadatas, ids, i + 1)

RECURSIVE ValidData(_, _, _, _)
ValidData(embeddings, metadatas, ids, i) ==
    IF i > Len(embeddings) \/ i > Len(metadatas) \/ i > Len(ids) THEN <<>>
    ELSE IF embeddings[i] # None
         THEN <<[vector |-> embeddings[i], metadata |-> metadatas[i], id |-> ids[i]]>>
                  \o ValidData(embeddings, metadatas, ids, i + 1)
         ELSE ValidData(embeddings, metadatas, ids, i + 1)

index_chunks_counts_input(s, chunks, batch_size, failing) ==
    IF chunks = <<>>
    THEN [raised |-> FALSE, returned |-> 0, store |-> s, embeddings |-> <<>>, calls |-> <<>>]
    ELSE LET embeddings == generate_embeddings(Field(chunks, "content"), batch_size, failing)
             valid_data == ValidData(embeddings, Field(chunks, "metadata"),
                                     Field(chunks, "chunk_id"), 1)
         IN  IF valid_data = <<>>
             THEN [raised |-> FALSE, returned |-> 0, store |-> s,
                   embeddings |-> embeddings, calls |-> <<>>]
             ELSE LET done == add_vectors(s, Field(valid_data, "vector"),
                                          Field(valid_data, "metadata"),
                                          Field(valid_data, "id"))
                  IN  [raised |-> done.raised,
                       returned |-> Len(chunks),
                       store |-> done.store,
                       embeddings |-> embeddings,
                       calls |-> <<[vectors |-> Field(valid_data, "vector"),
                                    metadata |-> Field(valid_data, "metadata"),
                                    ids |-> Field(valid_data, "id")]>>]

index_chunks(s, chunks, batch_size, failing) ==
    IF chunks = <<>>
    THEN [raised |-> FALSE, returned |-> 0, store |-> s, embeddings |-> <<>>, calls |-> <<>>]
    ELSE LET texts == Field(chunks, "content")
             metadatas == Field(chunks, "metadata")
             ids == Field(chunks, "chunk_id")
             embeddings == generate_embeddings(texts, batch_size, failing)
             valid_data == ValidData(embeddings, metadatas, ids, 1)
         IN  IF valid_data = <<>>
             THEN [raised |-> FALSE, returned |-> 0, store |-> s,
                   embeddings |-> embeddings, calls |-> <<>>]
             ELSE LET valid_embeddings == Field(valid_data, "vector")
                      valid_metadata == Field(valid_data, "metadata")
                      valid_ids == Field(valid_data, "id")
                      done == add_vectors(s, valid_embeddings, valid_metadata, valid_ids)
                  IN  [raised |-> done.raised,
                       returned |-> Len(valid_embeddings),
                       store |-> done.store,
                       embeddings |-> embeddings,
                       calls |-> <<[vectors |-> valid_embeddings,
                                    metadata |-> valid_metadata,
                                    ids |-> valid_ids]>>]

IndexChunks ==
    \E chunks \in SeqsUpTo(ChunkSamples, MaxChunks), batch_size \in BatchSizes :
        \E failing \in SUBSET (0..((Len(chunks) - 1) \div batch_size)) :
            \E done \in { index_chunks(store, chunks, batch_size, failing) } :
                /\ ntotal(done.store) <= MaxVectors
                /\ Len(done.store.metadata_store) <= MaxVectors
                /\ store' = done.store
                /\ last' = [op |-> "index_chunks", raised |-> done.raised,
                            returned |-> done.returned, chunks |-> chunks,
                            embeddings |-> done.embeddings, calls |-> done.calls,
                            before |-> ntotal(store),
                            batch_size |-> batch_size, failing |-> failing]
                /\ UNCHANGED <<disk, saved, pc, loc, nsaves>>

NextIndexer == IndexChunks

SpecIndexer == Init /\ [][NextIndexer]_vars

(***************************************************************************)
(* EmbeddingGenerator.generate_embedding: None for an empty or blank text  *)
(* and when the provider call raises (fails), the provider's vector        *)
(* otherwise.                                                              *)
(***************************************************************************)
Whitespace == {" ", "\n"}

IsBlank(text) == \A i \in 1..Len(text) : text[i] \in Whitespace

generate_embedding(text, fails) ==
    IF text = <<>> \/ IsBlank(text) THEN None
    ELSE IF fails THEN None
    ELSE provider_embedding(text)

(***************************************************************************)
(* str.lower, str.split, the substring test and dict.get on texts and      *)
(* metadata.                                                               *)
(***************************************************************************)
LowerChar(c) ==
    CASE c = "A" -> "a"
      [] c = "B" -> "b"
      [] c = "C" -> "c"
      [] c = "D" -> "d"
      [] c = "E" -> "e"
      [] c = "F" -> "f"
      [] c = "G" -> "g"
      [] c = "H" -> "h"
      [] c = "I" -> "i"
      [] c = "J" -> "j"
      [] c = "K" -> "k"
      [] c = "L" -> "l"
      [] c = "M" -> "m"
      [] c = "N" -> "n"
      [] c = "O" -> "o"
      [] c = "P" -> "p"
      [] c = "Q" -> "q"
      [] c = "R" -> "r"
      [] c = "S" -> "s"
      [] c = "T" -> "t"
      [] c = "U" -> "u"
      [] c = "V" -> "v"
      [] c = "W" -> "w"
      [] c = "X" -> "x"
      [] c = "Y" -> "y"
      [] c = "Z" -> "z"
      [] OTHER -> c

Lower(text) == [i \in 1..Len(text) |-> LowerChar(text[i])]

RECURSIVE SplitFrom(_, _, _)
SplitFrom(text, i, term) ==
    IF i > Len(text) THEN (IF term = <<>> THEN {} ELSE {term})
    ELSE IF text[i] \in Whitespace
         THEN (IF term = <<>> THEN {} ELSE {term}) \cup SplitFrom(text, i + 1, <<>>)
         ELSE SplitFrom(text, i + 1, Append(term, text[i]))

Split(text) == SplitFrom(text, 1, <<>>)

Contains(term, text) ==
    \E i \in 0..(Len(text) - Len(term)) : SubSeq(text, i + 1, i + Len(term)) = term

Get(metadata, key, default) ==
    IF key \in DOMAIN metadata THEN metadata[key] ELSE default

(***************************************************************************)
(* MultiStageRetriever._vector_search.  searches counts the calls of the   *)
(* store's search and search_calls lists their arguments.                  *)
(***************************************************************************)
vector_search_without_guard(s, query, filters, top_k, fails) ==
    LET query_embedding == generate_embedding(query, fails)
        found == search(s, query_embedding, top_k, filters)
    IN  [raised |-> found.raised, results |-> found.results,
         embedding |-> query_embedding, searches |-> 1,
         search_calls |-> <<[k |-> top_k, filter_dict |-> filters]>>]

vector_search(s, query, filters, top_k, fails) ==
    LET query_embedding == generate_embedding(query, fails)
    IN  IF query_embedding = None
        THEN [raised |-> FALSE, results |-> <<>>, embedding |-> None, searches |-> 0,
              search_calls |-> <<>>]
        ELSE LET found == search(s, query_embedding, top_k, filters)
             IN  [raised |-> found.raised, results |-> found.results,
                  embedding |-> query_embedding, searches |-> 1,
                  search_calls |-> <<[k |-> top_k, filter_dict |-> filters]>>]

(***************************************************************************)
(* MultiStageRetriever._rerank_results.  The score 1/(1 + distance) plus   *)
(* the boosts (0.1 per matching term, the type's boost, 0.2 for a matching *)
(* name) is kept exact, as the fraction num/den; the sort is stable and    *)
(* descending, as sorted(..., reverse=True).                               *)
(***************************************************************************)
type_boost(code_type) ==
    CASE code_type = "function" -> 30
      [] code_type = "class" -> 20
      [] code_type = "module_level" -> 10
      [] code_type = "import" -> 5
      [] OTHER -> 0

rerank_score(query, result) ==
    LET query_terms == Split(Lower(query))
        metadata == result.metadata
        content_lower == Lower(Get(metadata, "content", <<>>))
        term_matches == Cardinality({ term \in query_terms : Contains(term, content_lower) })
        name == Get(metadata, "name", <<>>)
        name_boost == IF name # <<>> /\ \E term \in query_terms : Contains(term, Lower(name))
                      THEN 20 ELSE 0
        hundredths == term_matches * 10 + type_boost(Get(metadata, "type", "")) + name_boost
    IN  [num |-> 100 + hundredths * (1 + result.score), den |-> 100 * (1 + result.score)]

Higher(a, b) == a.num * b.den > b.num * a.den

RECURSIVE InsertByScore_ahead_of_ties(_, _)
InsertByScore_ahead_of_ties(sorted, result) ==
    IF sorted = <<>> THEN <<result>>
    ELSE IF ~Higher(sorted[1].rerank_score, result.rerank_score)
         THEN <<result>> \o sorted
         ELSE <<sorted[1]>> \o InsertByScore_ahead_of_ties(Tail(sorted), result)

RECURSIVE InsertByScore(_, _)
InsertByScore(sorted, result) ==
    IF sorted = <<>> THEN <<result>>
    ELSE IF Higher(result.rerank_score, sorted[1].rerank_score)
         THEN <<result>> \o sorted
         ELSE <<sorted[1]>> \o InsertByScore(Tail(sorted), result)

RECURSIVE SortedByScore(_, _)
SortedByScore(results, n) ==
    IF n = 0 THEN <<>>
    ELSE InsertByScore(SortedByScore(results, n - 1), results[n])

rerank_results(query, candidates) ==
    LET scored == [ i \in 1..Len(candidates) |->
                      [metadata |-> candidates[i].metadata,
                       score |-> candidates[i].score,
                       index |-> candidates[i].index,
                       rerank_score |-> rerank_score(query, candidates[i])] ]
    IN  SortedByScore(scored, Len(scored))

(***************************************************************************)
(* MultiStageRetriever._expand_context and _explain_relevance.  The        *)
(* explanation is kept as the parts that the code joins into one string.   *)
(***************************************************************************)
DefaultContextWindow == 3

capitalize(word) ==
    CASE word = "function" -> "Function"
      [] word = "class" -> "Class"
      [] word = "line_based" -> "Line_based"
      [] word = "code" -> "Code"
      [] OTHER -> word

PathName(file_path) == IF file_path = <<>> THEN "" ELSE file_path[Len(file_path)]

explain_relevance(metadata) ==
    [code_type |-> capitalize(Get(metadata, "type", "code")),
     name |-> Get(metadata, "name", <<>>),
     language |-> Get(metadata, "language", ""),
     file_name |-> PathName(Get(metadata, "file_path", <<>>))]

expand_context_into_metadata(results, context_window) ==
    [ i \in 1..Len(results) |->
        [metadata |-> ("relevance_explanation" :> explain_relevance(results[i].metadata))
                          @@ results[i].metadata,
         score |-> results[i].score,
         index |-> results[i].index,
         rerank_score |-> results[i].rerank_score,
         context |-> [before_lines |-> context_window,
                      after_lines |-> context_window,
                      file_path |-> Get(results[i].metadata, "file_path", <<>>),
                      start_line |-> Get(results[i].metadata, "start_line", 0),
                      end_line |-> Get(results[i].metadata, "end_line", 0)],
         relevance_explanation |-> explain_relevance(results[i].metadata)] ]

expand_context(results, context_window) ==
    [ i \in 1..Len(results) |->
        [metadata |-> results[i].metadata,
         score |-> results[i].score,
         index |-> results[i].index,
         rerank_score |-> results[i].rerank_score,
         context |-> [before_lines |-> context_window,
                      after_lines |-> context_window,
                      file_path |-> Get(results[i].metadata, "file_path", <<>>),
                      start_line |-> Get(results[i].metadata, "start_line", 0),
                      end_line |-> Get(results[i].metadata, "end_line", 0)],
         relevance_explanation |-> explain_relevance(results[i].metadata)] ]

(***************************************************************************)
(* MultiStageRetriever.retrieve, for a retriever built with top_k and      *)
(* top_n.                                                                  *)
(***************************************************************************)
retrieve_untruncated(s, query, filters, context_window, top_k, top_n, fails) ==
    LET stage1 == vector_search(s, query, filters, top_k, fails)
    IN  [raised |-> stage1.raised,
         results |-> IF stage1.raised THEN <<>>
                     ELSE expand_context(rerank_results(query, stage1.results),
                                         context_window),
         candidates |-> stage1.results,
         held |-> IF stage1.raised THEN <<>>
                  ELSE expand_context(rerank_results(query, stage1.results),
                                      context_window),
         embedding |-> stage1.embedding, searches |-> stage1.searches,
         search_calls |-> stage1.search_calls]

retrieve(s, query, filters, context_window, top_k, top_n, fails) ==
    LET stage1 == vector_search(s, query, filters, top_k, fails)
    IN  IF stage1.raised
        THEN [raised |-> TRUE, results |-> <<>>, candidates |-> <<>>, held |-> <<>>,
              embedding |-> stage1.embedding, searches |-> stage1.searches,
              search_calls |-> stage1.search_calls]
        ELSE IF stage1.results = <<>>
        THEN [raised |-> FALSE, results |-> <<>>, candidates |-> <<>>, held |-> <<>>,
              embedding |-> stage1.embedding, searches |-> stage1.searches,
              search_calls |-> stage1.search_calls]
        ELSE LET reranked == rerank_results(query, stage1.results)
                 expanded == expand_context(reranked, context_window)
             IN  [raised |-> FALSE,
                  results |-> SubSeq(expanded, 1, Min(top_n, Len(expanded))),
                  candidates |-> stage1.results, held |-> expanded,
                  embedding |-> stage1.embedding, searches |-> stage1.searches,
                  search_calls |-> stage1.search_calls]

QueryTexts == { TextAdd, <<"A", "d", "d">>, <<"A", "d", "d", " ", "x">>, <<>>, <<" ">> }

Retrieve ==
    \E query \in QueryTexts, filters \in Filters, top_k \in 1..MaxK, top_n \in 1..MaxK,
       fails \in BOOLEAN :
        \E done \in { retrieve(store, query, filters, DefaultContextWindow,
                              top_k, top_n, fails) } :
            /\ fails => ~IsBlank(query)
            /\ last' = [op |-> "retrieve", raised |-> done.raised, query |-> query,
                        filters |-> filters, top_k |-> top_k, top_n |-> top_n,
                        embedding |-> done.embedding, searches |-> done.searches,
                        search_calls |-> done.search_calls,
                        candidates |-> done.candidates,
                        results |-> done.results]
            /\ store' = metadata_held_by(store, done.held)
            /\ UNCHANGED <<disk, saved, pc, loc, nsaves>>

(***************************************************************************)
(* A retriever is built over a store that indexing runs have filled.       *)
(***************************************************************************)
IndexedStores ==
    { index_chunks(NewStore(dimension), chunks, 1, {}).store :
          dimension \in Dims, chunks \in SeqsUpTo(ChunkSamples, MaxVectors) }

InitRetriever ==
    /\ store \in IndexedStores
    /\ disk = EmptyDir
    /\ saved = NothingSaved
    /\ last = [op |-> "init", raised |-> FALSE, dimension |-> store.dimension]
    /\ pc = Idle
    /\ loc = Idle
    /\ nsaves = 0

NextRetriever == Retrieve

SpecRetriever == InitRetriever /\ [][NextRetriever]_vars

(***************************************************************************)
(* One call on a filled store, of the store's search or of the retriever's *)
(* retrieve.                                                               *)
(***************************************************************************)
RetrieveOnce ==
    /\ last.op = "init"
    /\ Retrieve

NextReadOnly ==
    \/ SearchOnce
    \/ RetrieveOnce

SpecReadOnly == InitRetriever /\ [][NextReadOnly]_vars

(***************************************************************************)
(* A retriever over a store filled from the line-based chunks of one file: *)
(* chunks of one type, without names, that differ in content.              *)
(***************************************************************************)
LineChunks ==
    { CodeChunk(TextX, [file_path |-> <<"b.go">>, language |-> "go",
                        type |-> "line_based", start_line |-> 1, end_line |-> 1]),
      CodeChunk(TextAdd, [file_path |-> <<"b.go">>, language |-> "go",
                          type |-> "line_based", start_line |-> 2, end_line |-> 2]) }

InitRanking ==
    /\ store \in { index_chunks(NewStore(dimension), chunks, 1, {}).store :
                      dimension \in Dims, chunks \in SeqsUpTo(LineChunks, MaxVectors) }
    /\ disk = EmptyDir
    /\ saved = NothingSaved
    /\ last = [op |-> "init", raised |-> FALSE, dimension |-> store.dimension]
    /\ pc = Idle
    /\ loc = Idle
    /\ nsaves = 0

SpecRanking == InitRanking /\ [][NextRetriever]_vars

(***************************************************************************)
(* HybridRetriever.  retrieve runs MultiStageRetriever.retrieve and, with  *)
(* use_keyword_search, appends the keyword results (_keyword_search        *)
(* returns none) and keeps, in order, each result whose metadata has a     *)
(* chunk_id not seen before, cut to top_n.  "" stands for the None that    *)
(* metadata.get('chunk_id') gives when the key is absent.                  *)
(***************************************************************************)
keyword_search(query, filters) == <<>>

RECURSIVE MergeFrom(_, _, _, _)
MergeFrom(results, i, seen_ids, merged_results) ==
    IF i > Len(results) THEN merged_results
    ELSE LET chunk_id == Get(results[i].metadata, "chunk_id", "")
         IN  IF chunk_id # "" /\ chunk_id \notin seen_ids
             THEN MergeFrom(results, i + 1, seen_ids \cup {chunk_id},
                            Append(merged_results, results[i]))
             ELSE MergeFrom(results, i + 1, seen_ids, merged_results)

hybrid_retrieve(s, query, filters, context_window, top_k, top_n, use_keyword_search, fails) ==
    LET vector == retrieve(s, query, filters, context_window, top_k, top_n, fails)
        merged_results == MergeFrom(vector.results \o keyword_search(query, filters),
                                    1, {}, <<>>)
    IN  [raised |-> vector.raised,
         vector_results |-> vector.results,
         results |-> IF vector.raised THEN <<>>
                     ELSE IF use_keyword_search
                     THEN SubSeq(merged_results, 1, Min(top_n, Len(merged_results)))
                     ELSE vector.results]

HybridQueryTexts == { TextAdd, <<"x">>, <<>> }

HybridRetrieve ==
    /\ last.op = "init"
    /\ \E query \in HybridQueryTexts, filters \in Filters, top_k \in 1..MaxK,
          top_n \in 1..MaxK, use_keyword_search \in BOOLEAN, fails \in BOOLEAN :
           /\ fails => ~IsBlank(query)
           /\ \E done \in { hybrid_retrieve(store, query, filters, DefaultContextWindow,
                                           top_k, top_n, use_keyword_search, fails) } :
                  last' = [op |-> "hybrid_retrieve", raised |-> done.raised,
                           query |-> query, filters |-> filters,
                           top_k |-> top_k, top_n |-> top_n,
                           use_keyword_search |-> use_keyword_search,
                           vector_results |-> done.vector_results,
                           results |-> done.results]
    /\ UNCHANGED <<store, disk, saved, pc, loc, nsaves>>

NextHybrid == HybridRetrieve

SpecHybrid == InitRetriever /\ [][NextHybrid]_vars

(***************************************************************************)
(* The chunker.  A source text is a sequence of characters; str.split on   *)
(* the newline, the join of lines and str.strip are computed as Python     *)
(* computes them.                                                          *)
(***************************************************************************)
RECURSIVE SplitLinesFrom(_, _, _)
SplitLinesFrom(code, i, line) ==
    IF i > Len(code) THEN <<line>>
    ELSE IF code[i] = "\n" THEN <<line>> \o SplitLinesFrom(code, i + 1, <<>>)
    ELSE SplitLinesFrom(code, i + 1, Append(line, code[i]))

SplitLines(code) == SplitLinesFrom(code, 1, <<>>)

RECURSIVE Join(_)
Join(lines) ==
    IF lines = <<>> THEN <<>>
    ELSE IF Len(lines) = 1 THEN lines[1]
    ELSE lines[1] \o <<"\n">> \o Join(Tail(lines))

Strip(text) ==
    LET kept == { i \in 1..Len(text) : text[i] \notin Whitespace }
    IN  IF kept = {} THEN <<>>
        ELSE SubSeq(text, CHOOSE i \in kept : \A j \in kept : i <= j,
                          CHOOSE i \in kept : \A j \in kept : j <= i)

Slice(lines, from, to) == SubSeq(lines, from + 1, to)

Max(a, b) == IF a >= b THEN a ELSE b

(***************************************************************************)
(* CodeChunker._create_chunk_from_lines: no chunk (the empty list here)    *)
(* when the stripped content is empty, else the one chunk.                 *)
(***************************************************************************)
create_chunk_from_lines(lines, start_line, language, file_path, chunk_type, chunk_num) ==
    LET content == Strip(Join(lines))
    IN  IF content = <<>> THEN <<>>
        ELSE <<CodeChunk(content,
                         [file_path |-> file_path,
                          language |-> language,
                          type |-> chunk_type,
                          start_line |-> start_line,
                          end_line |-> start_line + Len(lines) - 1,
                          num_lines |-> Len(lines),
                          num_characters |-> Len(content),
                          chunk_number |-> chunk_num])>>

(***************************************************************************)
(* CodeChunker._chunk_by_lines.  The division by the average line length   *)
(* raises for the empty text (0 characters on 1 line); the loop does not   *)
(* end when its step, lines_per_chunk - overlap_lines, is not positive.    *)
(***************************************************************************)
RECURSIVE LineWindows(_, _, _, _, _, _, _)
LineWindows(lines, language, file_path, lines_per_chunk, overlap_lines, i, chunk_num) ==
    IF i >= Len(lines) THEN <<>>
    ELSE LET end == Min(i + lines_per_chunk, Len(lines))
         IN  create_chunk_from_lines(Slice(lines, i, end), i, language, file_path,
                                     "line_based", chunk_num)
                 \o LineWindows(lines, language, file_path, lines_per_chunk, overlap_lines,
                                i + lines_per_chunk - overlap_lines, chunk_num + 1)

chunk_by_lines(code, language, file_path, chunk_size, chunk_overlap) ==
    LET lines == SplitLines(code)
    IN  IF Len(code) = 0 THEN [status |-> "raised", chunks |-> <<>>]
        ELSE LET lines_per_chunk == (chunk_size * Len(lines)) \div Len(code)
                 overlap_lines == (chunk_overlap * Len(lines)) \div Len(code)
             IN  IF lines_per_chunk - overlap_lines <= 0
                 THEN [status |-> "diverged", chunks |-> <<>>]
                 ELSE [status |-> "returned",
                       chunks |-> LineWindows(lines, language, file_path, lines_per_chunk,
                                              overlap_lines, 0, 0)]

(***************************************************************************)
(* CodeChunker._create_chunk_from_element and _chunk_code_outside_elements *)
(***************************************************************************)
create_chunk_from_element(element, code, language, file_path) ==
    LET lines == SplitLines(code)
        start_line == Max(0, element.start_line - 2)
        end_line == Min(Len(lines), element.end_line + 3)
        context_before == Join(Slice(lines, start_line, element.start_line))
        context_after == Join(Slice(lines, element.end_line + 1, end_line))
        full_content == Strip(context_before \o <<"\n">> \o element.code
                                  \o <<"\n">> \o context_after)
    IN  CodeChunk(full_content,
                  [file_path |-> file_path,
                   language |-> language,
                   type |-> element.type,
                   name |-> element.name,
                   start_line |-> element.start_line,
                   end_line |-> element.end_line,
                   num_lines |-> element.end_line - element.start_line + 1,
                   num_characters |-> Len(full_content),
                   has_context |-> TRUE])

RECURSIVE OutsideFrom(_, _, _, _, _, _, _)
OutsideFrom(lines, covered_lines, language, file_path, i, current_chunk_lines, current_start_line) ==
    IF i >= Len(lines)
    THEN (IF current_chunk_lines = <<>> THEN <<>>
          ELSE create_chunk_from_lines(current_chunk_lines, current_start_line,
                                       language, file_path, "module_level", 0))
    ELSE IF i \notin covered_lines
         THEN OutsideFrom(lines, covered_lines, language, file_path, i + 1,
                          Append(current_chunk_lines, lines[i + 1]),
                          IF current_chunk_lines = <<>> THEN i ELSE current_start_line)
         ELSE (IF current_chunk_lines = <<>> THEN <<>>
               ELSE create_chunk_from_lines(current_chunk_lines, current_start_line,
                                            language, file_path, "module_level", 0))
                  \o OutsideFrom(lines, covered_lines, language, file_path, i + 1,
                                 <<>>, current_start_line)

chunk_code_outside_elements_all_lines(code, elements, language, file_path) ==
    OutsideFrom(SplitLines(code), {}, language, file_path, 0, <<>>, 0)

chunk_code_outside_elements(code, elements, language, file_path) ==
    LET covered_lines == UNION { elements[e].start_line..elements[e].end_line :
                                     e \in 1..Len(elements) }
    IN  OutsideFrom(SplitLines(code), covered_lines, language, file_path, 0, <<>>, 0)

(***************************************************************************)
(* CodeChunker._chunk_by_ast.  tree tells whether CodeParser.parse gave a  *)
(* tree; functions and classes are what extract_functions and             *)
(* extract_classes gave.  The sort by start_byte is stable.                *)
(***************************************************************************)
RECURSIVE InsertByStart(_, _)
InsertByStart(sorted, element) ==
    IF sorted = <<>> THEN <<element>>
    ELSE IF element.start_byte < sorted[1].start_byte
         THEN <<element>> \o sorted
         ELSE <<sorted[1]>> \o InsertByStart(Tail(sorted), element)

SortedByStart_as_extracted(elements, n) == SubSeq(elements, 1, n)

RECURSIVE SortedByStart(_, _)
SortedByStart(elements, n) ==
    IF n = 0 THEN <<>>
    ELSE InsertByStart(SortedByStart(elements, n - 1), elements[n])

chunk_by_ast_without_fallback(code, language, file_path, chunk_size, chunk_overlap, tree, functions, classes) ==
    IF ~tree THEN chunk_by_lines(code, language, file_path, chunk_size, chunk_overlap)
    ELSE LET elements == SortedByStart(functions \o classes, Len(functions \o classes))
         IN  [status |-> "returned",
              chunks |-> [ e \in 1..Len(elements) |->
                             create_chunk_from_element(elements[e], code, language,
                                                       file_path) ]
                         \o chunk_code_outside_elements(code, elements, language, file_path)]

chunk_by_ast(code, language, file_path, chunk_size, chunk_overlap, tree, functions, classes) ==
    IF ~tree THEN chunk_by_lines(code, language, file_path, chunk_size, chunk_overlap)
    ELSE LET elements == SortedByStart(functions \o classes, Len(functions \o classes))
             chunks == [ e \in 1..Len(elements) |->
                           create_chunk_from_element(elements[e], code, language, file_path) ]
         IN  IF elements # <<>>
             THEN [status |-> "returned",
                   chunks |-> chunks \o chunk_code_outside_elements(code, elements,
                                                                     language, file_path)]
             ELSE chunk_by_lines(code, language, file_path, chunk_size, chunk_overlap)

(***************************************************************************)
(* CodeChunker.chunk_code, for a chunker built with chunk_size,            *)
(* chunk_overlap and use_ast.                                              *)
(***************************************************************************)
supported_languages == {"python", "javascript", "typescript", "java", "cpp", "c", "go", "rust"}

chunk_code(code, language, file_path, chunk_size, chunk_overlap, use_ast, tree, functions, classes) ==
    IF use_ast /\ language \in supported_languages
    THEN chunk_by_ast(code, language, file_path, chunk_size, chunk_overlap, tree,
                      functions, classes)
    ELSE chunk_by_lines(code, language, file_path, chunk_size, chunk_overlap)

(***************************************************************************)
(* Calls of chunk_code.  What the parser gives for a text is part of the   *)
(* call: whether parse returns a tree, and the functions and classes that  *)
(* extract_functions and extract_classes return, each a span of the text   *)
(* that begins and ends with a character that is not white space.          *)
(***************************************************************************)
MaxCodeLen == MaxVectors + 2

CodeChars == {"x", " ", "\n"}

Codes == SeqsUpTo(CodeChars, MaxCodeLen)

ChunkSizes == 1..(MaxVectors + 1)

ChunkOverlaps == 0..MaxVectors

Languages == {"python", "text"}

RowOf(code, byte) == Cardinality({ i \in 1..byte : code[i] = "\n" })

Element(code, start_byte, end_byte, type) ==
    [name |-> <<code[start_byte + 1]>>,
     code |-> SubSeq(code, start_byte + 1, end_byte),
     start_line |-> RowOf(code, start_byte),
     end_line |-> RowOf(code, end_byte),
     start_byte |-> start_byte,
     end_byte |-> end_byte,
     type |-> type]

Extracted(code, type) ==
    { Element(code, span[1], span[2], type) :
          span \in { sp \in (0..Len(code)) \X (1..Len(code)) :
                         /\ sp[1] < sp[2]
                         /\ code[sp[1] + 1] \notin Whitespace
                         /\ code[sp[2]] \notin Whitespace } }

ChunkCall(code, language, chunk_size, chunk_overlap, use_ast, tree, functions, classes) ==
    [op |-> "call", code |-> code, language |-> language, file_path |-> <<"src", "a.py">>,
     chunk_size |-> chunk_size, chunk_overlap |-> chunk_overlap, use_ast |-> use_ast,
     tree |-> tree, functions |-> functions, classes |-> classes]

ChunkCallsOn(code) ==
    { ChunkCall(code, language, chunk_size, chunk_overlap, use_ast, FALSE, <<>>, <<>>) :
          language \in Languages, chunk_size \in ChunkSizes,
          chunk_overlap \in ChunkOverlaps, use_ast \in BOOLEAN }
    \cup
    { ChunkCall(code, "python", chunk_size, chunk_overlap, TRUE, TRUE, functions, classes) :
          chunk_size \in ChunkSizes, chunk_overlap \in ChunkOverlaps,
          functions \in SeqsUpTo(Extracted(code, "function"), 1),
          classes \in SeqsUpTo(Extracted(code, "class"), 1) }

Chunked(call) ==
    chunk_code(call.code, call.language, call.file_path, call.chunk_size,
               call.chunk_overlap, call.use_ast, call.tree, call.functions, call.classes)

ChunkCode ==
    /\ last.op = "call"
    /\ \E done \in { Chunked(last) } :
           last' = [op |-> "chunk_code", call |-> last, run |-> 1,
                    status |-> done.status, chunks |-> done.chunks]
    /\ UNCHANGED <<store, disk, saved, pc, loc, nsaves>>

ChunkCodeAgain ==
    /\ last.op = "chunk_code"
    /\ last.run = 1
    /\ \E done \in { Chunked(last.call) } :
           last' = [op |-> "chunk_code", call |-> last.call, run |-> 2,
                    status |-> done.status, chunks |-> done.chunks,
                    first |-> [status |-> last.status, chunks |-> last.chunks]]
    /\ UNCHANGED <<store, disk, saved, pc, loc, nsaves>>

InitChunker ==
    /\ store = NewStore(0)
    /\ disk = EmptyDir
    /\ saved = NothingSaved
    /\ \E code \in Codes : last \in ChunkCallsOn(code)
    /\ pc = Idle
    /\ loc = Idle
    /\ nsaves = 0

NextChunker == ChunkCode \/ ChunkCodeAgain

SpecChunker == InitChunker /\ [][NextChunker]_vars

(***************************************************************************)
(* Structural chunking of sources long enough to have three lines after a  *)
(* unit: texts of up to MaxContextLen characters, parsed, with one         *)
(* function and at most one class extracted.                               *)
(***************************************************************************)
MaxContextLen == MaxVectors + 4

ContextCodes == SeqsUpTo({"x", "\n"}, MaxContextLen)

ContextCallsOn(code) ==
    { ChunkCall(code, "python", MaxContextLen, 0, TRUE, TRUE, <<function>>, classes) :
          function \in Extracted(code, "function"),
          classes \in SeqsUpTo(Extracted(code, "class"), 1) }

InitContext ==
    /\ store = NewStore(0)
    /\ disk = EmptyDir
    /\ saved = NothingSaved
    /\ \E code \in ContextCodes : last \in ContextCallsOn(code)
    /\ pc = Idle
    /\ loc = Idle
    /\ nsaves = 0

NextContext == ChunkCode

SpecContext == InitContext /\ [][NextContext]_vars

(***************************************************************************)
(* QueryConstructor (llm/query_constructor.py).  Queries are sequences of  *)
(* characters.  _detect_intent walks intent_keywords in the order the      *)
(* dict literal lists them and returns the first intent one of whose       *)
(* keywords is a substring of the lower-cased query, 'search' when none    *)
(* is.  _suggest_filters takes the first listed language that is a         *)
(* substring and the first code type one of whose words is a substring;    *)
(* _enhance_query appends the expansion of the first listed abbreviation   *)
(* found in the lower-cased query.  parse_query's 'entities' (the regular  *)
(* expression matches of _extract_entities) are not part of the model.     *)
(***************************************************************************)
intent_keywords ==
    << [intent |-> "search",
        keywords |-> { <<"f", "i", "n", "d">>, <<"s", "e", "a", "r", "c", "h">>,
                      <<"l", "o", "c", "a", "t", "e">>,
                      <<"w", "h", "e", "r", "e", " ", "i", "s">>,
                      <<"s", "h", "o", "w", " ", "m", "e">> }],
       [intent |-> "explain",
        keywords |-> { <<"e", "x", "p", "l", "a", "i", "n">>,
                      <<"h", "o", "w", " ", "d", "o", "e", "s">>,
                      <<"w", "h", "a", "t", " ", "d", "o", "e", "s">>,
                      <<"d", "e", "s", "c", "r", "i", "b", "e">>,
                      <<"t", "e", "l", "l", " ", "m", "e", " ", "a", "b", "o", "u", "t">> }],
       [intent |-> "debug",
        keywords |-> { <<"d", "e", "b", "u", "g">>, <<"f", "i", "x">>,
                      <<"e", "r", "r", "o", "r">>, <<"b", "u", "g">>,
                      <<"i", "s", "s", "u", "e">>,
                      <<"p", "r", "o", "b", "l", "e", "m">> }],
       [intent |-> "example",
        keywords |-> { <<"e", "x", "a", "m", "p", "l", "e">>,
                      <<"s", "a", "m", "p", "l", "e">>,
                      <<"d", "e", "m", "o", "n", "s", "t", "r", "a", "t", "e">>,
                      <<"s", "h", "o", "w", " ", "e", "x", "a", "m", "p", "l", "e">> }],
       [intent |-> "implement",
        keywords |-> { <<"h", "o", "w", " ", "t", "o">>,
                      <<"i", "m", "p", "l", "e", "m", "e", "n", "t">>,
                      <<"c", "r", "e", "a", "t", "e">>,
                      <<"b", "u", "i", "l", "d">>, <<"m", "a", "k", "e">> }] >>

ContainsAny(words, text) == \E word \in words : Contains(word, text)

detect_intent(query) ==
    LET hits == { i \in DOMAIN intent_keywords :
                      ContainsAny(intent_keywords[i].keywords, query) }
    IN  IF hits = {} THEN "search"
        ELSE intent_keywords[CHOOSE i \in hits : \A j \in hits : i <= j].intent

languages ==
    << [name |-> "python", text |-> <<"p", "y", "t", "h", "o", "n">>],
       [name |-> "javascript", text |-> <<"j", "a", "v", "a", "s", "c", "r", "i", "p", "t">>],
       [name |-> "java", text |-> <<"j", "a", "v", "a">>],
       [name |-> "cpp", text |-> <<"c", "p", "p">>],
       [name |-> "c", text |-> <<"c">>],
       [name |-> "go", text |-> <<"g", "o">>],
       [name |-> "rust", text |-> <<"r", "u", "s", "t">>],
       [name |-> "typescript", text |-> <<"t", "y", "p", "e", "s", "c", "r", "i", "p", "t">>] >>

suggest_language(query) ==
    LET hits == { i \in DOMAIN languages : Contains(languages[i].text, query) }
    IN  IF hits = {} THEN EmptyDict
        ELSE "language" :> languages[CHOOSE i \in hits : \A j \in hits : i <= j].name

suggest_type(query) ==
    IF ContainsAny({ <<"f", "u", "n", "c", "t", "i", "o", "n">>,
                    <<"d", "e", "f">>, <<"m", "e", "t", "h", "o", "d">> }, query)
    THEN "type" :> "function"
    ELSE IF ContainsAny({ <<"c", "l", "a", "s", "s">>,
                    <<"s", "t", "r", "u", "c", "t">> }, query)
    THEN "type" :> "class"
    ELSE IF ContainsAny({ <<"i", "m", "p", "o", "r", "t">>,
                    <<"r", "e", "q", "u", "i", "r", "e">> }, query)
    THEN "type" :> "import"
    ELSE EmptyDict

suggest_filters(query) == suggest_language(query) @@ suggest_type(query)

enhancements ==
    << [abbrev |-> <<"a", "u", "t", "h">>,
        expansion |-> <<"a", "u", "t", "h", "e", "n", "t", "i", "c", "a", "t", "i", "o",
            "n", " ", "a", "u", "t", "h", "o", "r", "i", "z", "a", "t", "i",
            "o", "n", " ", "l", "o", "g", "i", "n">>],
       [abbrev |-> <<"d", "b">>,
        expansion |-> <<"d", "a", "t", "a", "b", "a", "s", "e">>],
       [abbrev |-> <<"a", "p", "i">>,
        expansion |-> <<"e", "n", "d", "p", "o", "i", "n", "t", " ", "r", "o", "u", "t",
            "e", " ", "h", "a", "n", "d", "l", "e", "r">>],
       [abbrev |-> <<"u", "i">>,
        expansion |-> <<"i", "n", "t", "e", "r", "f", "a", "c", "e", " ", "u", "s", "e",
            "r", "-", "i", "n", "t", "e", "r", "f", "a", "c", "e", " ", "f",
            "r", "o", "n", "t", "e", "n", "d">>],
       [abbrev |-> <<"t", "e", "s", "t">>,
        expansion |-> <<"t", "e", "s", "t", "i", "n", "g", " ", "u", "n", "i", "t", "-",
            "t", "e", "s", "t">>] >>

enhance_query(query) ==
    LET hits == { i \in DOMAIN enhancements : Contains(enhancements[i].abbrev, Lower(query)) }
    IN  IF hits = {} THEN query
        ELSE query \o <<" ">> \o
             enhancements[CHOOSE i \in hits : \A j \in hits : i <= j].expansion

parse_query(query) ==
    [ original_query |-> query,
      intent |-> detect_intent(Lower(query)),
      filters |-> suggest_filters(Lower(query)),
      enhanced_query |-> enhance_query(query) ]

(***************************************************************************)
(* Calls of parse_query: the queries of test_intent_detection and the      *)
(* queries of up to MaxWords of their words.                               *)
(***************************************************************************)
MaxWords == 2

QueryWords ==
    { <<"F", "i", "n", "d">>, <<"t", "h", "e">>, <<"l", "o", "g", "i", "n">>,
      <<"f", "u", "n", "c", "t", "i", "o", "n">>,
      <<"E", "x", "p", "l", "a", "i", "n">>, <<"h", "o", "w">>,
      <<"a", "u", "t", "h", "e", "n", "t", "i", "c", "a", "t", "i", "o", "n">>,
      <<"w", "o", "r", "k", "s">>, <<"D", "e", "b", "u", "g">>,
      <<"t", "h", "i", "s">>, <<"e", "r", "r", "o", "r">>,
      <<"S", "h", "o", "w">>, <<"m", "e">>, <<"a", "n">>,
      <<"e", "x", "a", "m", "p", "l", "e">>, <<"P", "y", "t", "h", "o", "n">>,
      <<"t", "y", "p", "e", "s", "c", "r", "i", "p", "t">>,
      <<"j", "a", "v", "a", "s", "c", "r", "i", "p", "t">>,
      <<"j", "a", "v", "a">>, <<"r", "u", "s", "t">>, <<"g", "o">>,
      <<"c", "p", "p">>, <<"c">>, <<"i", "n">> }

RECURSIVE JoinWords(_)
JoinWords(words) ==
    IF words = <<>> THEN <<>>
    ELSE IF Len(words) = 1 THEN words[1]
    ELSE words[1] \o <<" ">> \o JoinWords(Tail(words))

IntentTests ==
    { [query |-> JoinWords(<< <<"F", "i", "n", "d">>,
                           <<"t", "h", "e">>,
                           <<"l", "o", "g", "i", "n">>,
                           <<"f", "u", "n", "c", "t", "i", "o", "n">> >>),
       intent |-> "search"],
      [query |-> JoinWords(<< <<"E", "x", "p", "l", "a", "i", "n">>,
                           <<"h", "o", "w">>,
                           <<"a", "u", "t", "h", "e", "n", "t", "i", "c", "a", "t", "i", "o", "n">>,
                           <<"w", "o", "r", "k", "s">> >>),
       intent |-> "explain"],
      [query |-> JoinWords(<< <<"D", "e", "b", "u", "g">>,
                           <<"t", "h", "i", "s">>,
                           <<"e", "r", "r", "o", "r">> >>),
       intent |-> "debug"],
      [query |-> JoinWords(<< <<"S", "h", "o", "w">>,
                           <<"m", "e">>,
                           <<"a", "n">>,
                           <<"e", "x", "a", "m", "p", "l", "e">> >>),
       intent |-> "example"] }

UserQueries ==
    { t.query : t \in IntentTests } \cup { JoinWords(ws) : ws \in SeqsUpTo(QueryWords, MaxWords) }

ParseQuery ==
    /\ last.op = "query"
    /\ \E parsed \in { parse_query(last.query) } :
           last' = [op |-> "parse_query", query |-> last.query, parsed |-> parsed]
    /\ UNCHANGED <<store, disk, saved, pc, loc, nsaves>>

(***************************************************************************)
(* RAGPipeline.query up to its call of the search engine: the query is     *)
(* parsed, a language the caller gives (a non-empty string) replaces the   *)
(* suggested one, and search is called with the enhanced query and the     *)
(* language and type of the filters; search_call.filters holds the ones    *)
(* that are not None.  "" stands for a caller that gives no language.      *)
(***************************************************************************)
CallerLanguages == {"", "go"}

rag_query(user_query, language) ==
    LET parsed_query == parse_query(user_query)
        filters == IF language # "" THEN ("language" :> language) @@ parsed_query.filters
                   ELSE parsed_query.filters
    IN  [ parsed_query |-> parsed_query,
          search_call |-> [query |-> parsed_query.enhanced_query, filters |-> filters] ]

RagQuery ==
    /\ last.op = "query"
    /\ \E done \in { rag_query(last.query, last.language) } :
           last' = [op |-> "rag_query", query |-> last.query, language |-> last.language,
                    parsed |-> done.parsed_query, search_call |-> done.search_call]
    /\ UNCHANGED <<store, disk, saved, pc, loc, nsaves>>

InitQuery ==
    /\ store = NewStore(0)
    /\ disk = EmptyDir
    /\ saved = NothingSaved
    /\ last \in { [op |-> "query", query |-> query, language |-> language] :
                    query \in UserQueries, language \in CallerLanguages }
    /\ pc = Idle
    /\ loc = Idle
    /\ nsaves = 0

NextQuery == ParseQuery \/ RagQuery

SpecQuery == InitQuery /\ [][NextQuery]_vars

(***************************************************************************)
(* C1.  add_vectors called with a vector whose length differs from the     *)
(* store's configured dimension raises and leaves the index, the metadata  *)
(* array and the id lookup as they were.                                   *)
(***************************************************************************)
C1_MismatchRaisesAndStoresNothing ==
    [][ (last'.op = "add_vectors" /\ last'.mismatch)
            => (last'.raised /\ store' = store) ]_vars

(***************************************************************************)
(* C2.  In every state reachable by add_vectors, save and load calls,      *)
(* get_stats reports metadata_count equal to total_vectors.                *)
(***************************************************************************)
C2_MetadataCountIsTotalVectors ==
    get_stats(store).metadata_count = get_stats(store).total_vectors

(***************************************************************************)
(* C3.  Every candidate a search returns has each key of the filter in its *)
(* metadata, with the filter's value.                                      *)
(***************************************************************************)
C3_ResultsMatchFilter ==
    last.op = "search" =>
        \A i \in 1..Len(last.results) :
            \A key \in DOMAIN last.filter_dict :
                /\ key \in DOMAIN last.results[i].metadata
                /\ last.results[i].metadata[key] = last.filter_dict[key]

C3_Witness ==
    /\ last.op = "search"
    /\ DOMAIN last.filter_dict # {}
    /\ Len(last.results) >= 1
    /\ \E p \in 1..Len(store.metadata_store) :
           \E key \in DOMAIN last.filter_dict :
               key \notin DOMAIN store.metadata_store[p]

(***************************************************************************)
(* C4.  A search without a filter on a store holding n vectors returns     *)
(* exactly min(k, n) candidates in ascending distance; on an empty store   *)
(* it returns the empty list and does not raise.                           *)
(***************************************************************************)
C4_UnfilteredSearchReturnsMinKN ==
    /\ (last.op = "search" /\ ntotal(store) = 0)
           => (~last.raised /\ last.results = <<>>)
    /\ (last.op = "search" /\ ~last.raised /\ DOMAIN last.filter_dict = {})
           => /\ Len(last.results) = Min(last.k, ntotal(store))
              /\ \A i, j \in 1..Len(last.results) :
                     i < j => last.results[i].score <= last.results[j].score

(***************************************************************************)
(* C5.  After save, a load into a freshly constructed store of the same    *)
(* dimension restores the metadata array, the id lookup and the dimension, *)
(* and the loaded store has the saved store's get_stats and returns the    *)
(* saved store's search results, in the same order, for every query, k and *)
(* filter.                                                                 *)
(***************************************************************************)
C5_SaveLoadRoundTrip ==
    (/\ last.op = "load"
     /\ ~last.raised
     /\ saved.valid
     /\ last.fresh = saved.store.dimension)
        => /\ store.metadata_store = saved.store.metadata_store
           /\ store.id_to_index = saved.store.id_to_index
           /\ store.dimension = saved.store.dimension
           /\ get_stats(store) = get_stats(saved.store)
           /\ \A query_vector \in Queries, k \in 1..MaxK, filter_dict \in Filters :
                  search(store, query_vector, k, filter_dict)
                      = search(saved.store, query_vector, k, filter_dict)

C5_Witness ==
    /\ last.op = "load"
    /\ ~last.raised
    /\ saved.valid
    /\ last.fresh = saved.store.dimension
    /\ ntotal(saved.store) = MaxVectors
    /\ saved.store.id_to_index # {}
    /\ \E query_vector \in Queries :
           Len(search(store, query_vector, MaxK, EmptyDict).results) = MaxK

(***************************************************************************)
(* C6.  A load that raises leaves the store's index, metadata array, id    *)
(* lookup and dimension as they were before the call.                      *)
(***************************************************************************)
C6_FailedLoadChangesNothing ==
    [][ (last'.op = "load" /\ last'.raised) => store' = store ]_vars

(***************************************************************************)
(* C7.  Inserts are serialised (at most one add_vectors call is in flight  *)
(* on a store), so that under every interleaving of concurrent callers,    *)
(* once the calls have returned, position i of the index, position i of    *)
(* the metadata array and every id lookup entry pointing at i belong to    *)
(* the same inserted record.                                               *)
(***************************************************************************)
PositionsBelongToOneRecord(s) ==
    /\ Len(s.metadata_store) = ntotal(s)
    /\ \A p \in 1..ntotal(s) :
           \E record \in Samples :
               /\ record.vector = s.index.xb[p]
               /\ record.metadata = s.metadata_store[p]
               /\ \A item \in s.id_to_index : item[2] = p - 1 => item[1] = record.id
    /\ \A item \in s.id_to_index : item[2] < ntotal(s)

Embedded(embeddings) == { i \in 1..Len(embeddings) : embeddings[i] # None }

C8_ReturnsCountOfEmbeddedChunks ==
    (last.op = "index_chunks" /\ ~last.raised) =>
        /\ Len(last.embeddings) = Len(last.chunks)
        /\ last.returned = Cardinality(Embedded(last.embeddings))
        /\ get_stats(store).total_vectors = last.before + last.returned

C8_Witness ==
    /\ last.op = "index_chunks"
    /\ ~last.raised
    /\ Len(last.chunks) = 3
    /\ Embedded(last.embeddings) = {1, 3}
    /\ last.returned = 2
    /\ ntotal(store) = last.before + 2

(***************************************************************************)
(* C9.  A run of index_chunks makes exactly one add_vectors call (none     *)
(* when no embedding succeeded); the j-th vector, metadata and id of that  *)
(* call come from the j-th of the chunks that embedded successfully, taken *)
(* in input order.                                                         *)
(***************************************************************************)
RECURSIVE EmbeddedChunks(_, _, _)
EmbeddedChunks(chunks, embeddings, i) ==
    IF i > Len(chunks) THEN <<>>
    ELSE IF i \in Embedded(embeddings)
         THEN <<chunks[i]>> \o EmbeddedChunks(chunks, embeddings, i + 1)
         ELSE EmbeddedChunks(chunks, embeddings, i + 1)

C9_OneInsertOfTheEmbeddedChunks ==
    last.op = "index_chunks" =>
        LET embedded == EmbeddedChunks(last.chunks, last.embeddings, 1)
        IN  IF embedded = <<>> THEN last.calls = <<>>
            ELSE /\ Len(last.calls) = 1
                 /\ Len(last.calls[1].vectors) = Len(embedded)
                 /\ Len(last.calls[1].metadata) = Len(embedded)
                 /\ Len(last.calls[1].ids) = Len(embedded)
                 /\ \A j \in 1..Len(embedded) :
                        /\ last.calls[1].vectors[j] = provider_embedding(embedded[j].content)
                        /\ last.calls[1].metadata[j] = embedded[j].metadata
                        /\ last.calls[1].ids[j] = embedded[j].chunk_id

C9_Witness ==
    /\ last.op = "index_chunks"
    /\ ~last.raised
    /\ Len(last.chunks) = 3
    /\ Embedded(last.embeddings) = {2, 3}
    /\ last.chunks[2] # last.chunks[3]
    /\ Len(last.calls) = 1

(***************************************************************************)
(* C10.  When the embedding collaborator gives no vector for the query     *)
(* text, retrieve returns an empty list, does not raise, and does not call *)
(* the store's search.                                                     *)
(***************************************************************************)
C10_NoEmbeddingNoSearch ==
    (last.op = "retrieve" /\ last.embedding = None) =>
        /\ ~last.raised
        /\ last.results = <<>>
        /\ last.searches = 0

C10_Witness ==
    /\ last.op = "retrieve"
    /\ last.embedding = None
    /\ ~IsBlank(last.query)
    /\ ntotal(store) > 0
    /\ last.searches = 0
    /\ last.results = <<>>

(***************************************************************************)
(* C11.  retrieve returns at most top_n results, and the store is searched *)
(* exactly once per retrieve, with k = top_k and the caller's filter.      *)
(* As stated the second half fails for a query that has no embedding: the  *)
(* store is then not searched at all.                                      *)
(***************************************************************************)
C11_AtMostTopNAndOneSearch ==
    last.op = "retrieve" =>
        /\ Len(last.results) <= last.top_n
        /\ last.search_calls = <<[k |-> last.top_k, filter_dict |-> last.filters]>>

(***************************************************************************)
(* C11, amended.  retrieve returns at most top_n results; when the query   *)
(* has an embedding the store is searched exactly once, with k = top_k and *)
(* the caller's filter, and when it has none the store is not searched.    *)
(***************************************************************************)
C11_AtMostTopNAndOneSearchIfEmbedded ==
    last.op = "retrieve" =>
        /\ Len(last.results) <= last.top_n
        /\ last.search_calls =
               IF last.embedding = None THEN <<>>
               ELSE <<[k |-> last.top_k, filter_dict |-> last.filters]>>

C11_Witness ==
    /\ last.op = "retrieve"
    /\ last.embedding # None
    /\ DOMAIN last.filters # {}
    /\ last.top_n = 1
    /\ Len(last.candidates) = 2
    /\ Len(last.results) = 1
    /\ last.search_calls = <<[k |-> 2, filter_dict |-> last.filters]>>

(***************************************************************************)
(* C12.  The list that retrieve returns is ordered by rerank_score,        *)
(* descending; two candidates of equal rerank_score keep the order they    *)
(* had in the store's search result; and truncation to top_n keeps the     *)
(* highest-scored prefix.                                                  *)
(***************************************************************************)
PositionOf(candidates, index) ==
    CHOOSE p \in 1..Len(candidates) : candidates[p].index = index

SameScore(a, b) == ~Higher(a, b) /\ ~Higher(b, a)

C12_OrderedByScoreStableOnTies ==
    (last.op = "retrieve" /\ ~last.raised) =>
        LET results == last.results
            candidates == last.candidates
            returned == { results[i].index : i \in 1..Len(results) }
        IN  /\ Len(results) = Min(last.top_n, Len(candidates))
            /\ \A i \in 1..Len(results) :
                   \E p \in 1..Len(candidates) :
                       /\ candidates[p].index = results[i].index
                       /\ candidates[p].metadata = results[i].metadata
                       /\ results[i].rerank_score = rerank_score(last.query, candidates[p])
            /\ \A i, j \in 1..Len(results) :
                   i < j => ~Higher(results[j].rerank_score, results[i].rerank_score)
            /\ \A i, j \in 1..Len(results) :
                   (i < j /\ SameScore(results[i].rerank_score, results[j].rerank_score))
                       => PositionOf(candidates, results[i].index)
                              < PositionOf(candidates, results[j].index)
            /\ \A p \in 1..Len(candidates) :
                   candidates[p].index \notin returned =>
                       \A i \in 1..Len(results) :
                           /\ ~Higher(rerank_score(last.query, candidates[p]),
                                      results[i].rerank_score)
                           /\ SameScore(rerank_score(last.query, candidates[p]),
                                        results[i].rerank_score)
                                  => PositionOf(candidates, results[i].index) < p

C12_Witness ==
    /\ last.op = "retrieve"
    /\ ~last.raised
    /\ Len(last.candidates) = 2
    /\ Len(last.results) = 2
    /\ SameScore(last.results[1].rerank_score, last.results[2].rerank_score)
    /\ last.results[1].index = last.candidates[1].index
    /\ last.results[2].index = last.candidates[2].index

(* C12, reachable: reranking moves a candidate ahead of a nearer one.       *)
C12_Reordered ==
    /\ last.op = "retrieve"
    /\ Len(last.results) = 2
    /\ last.results[1].index = last.candidates[2].index
    /\ Higher(last.results[1].rerank_score, last.results[2].rerank_score)

(***************************************************************************)
(* C13.  For two candidates retrieved from a store that index_chunks       *)
(* filled, with the same distance and the same type: if the content of the *)
(* first one's chunk contains strictly more of the query's terms than the  *)
(* content of the second one's, its rerank_score is strictly higher.       *)
(***************************************************************************)
ContentOf(metadata) == (CHOOSE chunk \in LineChunks : chunk.metadata = metadata).content

TermsIn(query, content) ==
    Cardinality({ term \in Split(Lower(query)) : Contains(term, Lower(content)) })

C13_MoreTermsScoreHigher ==
    (last.op = "retrieve" /\ ~last.raised) =>
        \A i, j \in 1..Len(last.results) :
            LET a == last.results[i]
                b == last.results[j]
            IN  (/\ a.score = b.score
                 /\ Get(a.metadata, "type", "") = Get(b.metadata, "type", "")
                 /\ TermsIn(last.query, ContentOf(a.metadata))
                        > TermsIn(last.query, ContentOf(b.metadata)))
                    => Higher(a.rerank_score, b.rerank_score)

(***************************************************************************)
(* C14.  chunk_code on an empty source, or on one that holds white space   *)
(* only, returns the empty list and does not raise, for every language and *)
(* for use_ast true and false.                                             *)
(***************************************************************************)
C14_BlankSourceGivesNoChunks ==
    (last.op = "chunk_code" /\ IsBlank(last.call.code)) =>
        /\ last.status = "returned"
        /\ last.chunks = <<>>

(***************************************************************************)
(* C15.  chunk_code does not surface a parsing failure: for a language     *)
(* that is not supported, when the parser gives no tree, and when no       *)
(* function or class is found, the result is the line-based chunking of    *)
(* the same text, language and path: the same chunks in the same order,    *)
(* of type line_based.                                                     *)
(***************************************************************************)
FallsBack(call) ==
    /\ call.use_ast
    /\ \/ call.language \notin supported_languages
       \/ ~call.tree
       \/ (call.functions = <<>> /\ call.classes = <<>>)

C15_FallbackIsLineBased ==
    (last.op = "chunk_code" /\ FallsBack(last.call)) =>
        LET by_lines == chunk_by_lines(last.call.code, last.call.language,
                                       last.call.file_path, last.call.chunk_size,
                                       last.call.chunk_overlap)
        IN  /\ last.status = by_lines.status
            /\ last.chunks = by_lines.chunks
            /\ \A c \in 1..Len(last.chunks) : last.chunks[c].metadata.type = "line_based"

C15_Witness ==
    /\ last.op = "chunk_code"
    /\ last.call.use_ast
    /\ last.call.language \in supported_languages
    /\ last.call.tree
    /\ last.call.functions = <<>>
    /\ last.call.classes = <<>>
    /\ last.status = "returned"
    /\ Len(last.chunks) = 2
    /\ last.chunks[1].metadata.type = "line_based"

(***************************************************************************)
(* C16.  In structural chunking every unit (function or class) that the    *)
(* segmenter returned has exactly one chunk of its own: the chunk carries  *)
(* the unit's type, name and line range, and its content contains the      *)
(* unit's text.  The unit chunks come first in the result, in document     *)
(* order (ascending start offset); overlapping and nested units each keep  *)
(* their chunk.                                                            *)
(***************************************************************************)
Units(call) == call.functions \o call.classes

ChunkOfUnit(chunk, unit) ==
    /\ chunk.metadata.type = unit.type
    /\ "name" \in DOMAIN chunk.metadata
    /\ chunk.metadata.name = unit.name
    /\ chunk.metadata.start_line = unit.start_line
    /\ chunk.metadata.end_line = unit.end_line
    /\ Contains(unit.code, chunk.content)

Orders(n) == { f \in [1..n -> 1..n] : \A i, j \in 1..n : f[i] = f[j] => i = j }

C16_EveryUnitHasItsChunk ==
    (/\ last.op = "chunk_code"
     /\ last.call.use_ast
     /\ last.call.language \in supported_languages
     /\ last.call.tree
     /\ Units(last.call) # <<>>) =>
        LET units == Units(last.call)
            n == Len(units)
        IN  /\ last.status = "returned"
            /\ Len(last.chunks) >= n
            /\ \A c \in (n + 1)..Len(last.chunks) :
                   last.chunks[c].metadata.type = "module_level"
            /\ \E order \in Orders(n) :
                   /\ \A j \in 1..n : ChunkOfUnit(last.chunks[j], units[order[j]])
                   /\ \A j, k \in 1..n :
                          j < k => units[order[j]].start_byte <= units[order[k]].start_byte

C16_Witness ==
    /\ last.op = "chunk_code"
    /\ Len(last.call.functions) = 1
    /\ Len(last.call.classes) = 1
    /\ last.call.classes[1].start_byte < last.call.functions[1].start_byte
    /\ last.call.functions[1].end_byte <= last.call.classes[1].end_byte
    /\ last.call.classes[1].start_line < last.call.classes[1].end_line
    /\ Len(last.chunks) >= 2
    /\ last.chunks[1].metadata.type = "class"
    /\ last.chunks[2].metadata.type = "function"

(***************************************************************************)
(* C17.  With chunk_overlap = 0 the line ranges [start_line, end_line] of  *)
(* the chunks of line-based chunking cover every line of the input exactly *)
(* once: the ranges are pairwise disjoint and their union is the set of    *)
(* the line indices 0..N-1 of the source.                                  *)
(***************************************************************************)
LineBased(call) == ~call.use_ast \/ FallsBack(call)

LineRange(chunk) == chunk.metadata.start_line..chunk.metadata.end_line

C17_LineRangesCoverEveryLineOnce ==
    (last.op = "chunk_code" /\ LineBased(last.call) /\ last.call.chunk_overlap = 0) =>
        /\ last.status = "returned"
        /\ \A c, d \in 1..Len(last.chunks) :
               c # d => LineRange(last.chunks[c]) \cap LineRange(last.chunks[d]) = {}
        /\ UNION { LineRange(last.chunks[c]) : c \in 1..Len(last.chunks) }
               = 0..(Len(SplitLines(last.call.code)) - 1)

(* C17, reachable: the ranges of the returned chunks cover every line once. *)
C17_Covered ==
    /\ last.op = "chunk_code"
    /\ LineBased(last.call)
    /\ last.call.chunk_overlap = 0
    /\ last.status = "returned"
    /\ Len(last.chunks) = 2
    /\ LineRange(last.chunks[1]) = {0}
    /\ LineRange(last.chunks[2]) = {1}

(* C17, reachable: a blank window is dropped and its line is in no range.   *)
C17_BlankWindowDropped ==
    /\ last.op = "chunk_code"
    /\ LineBased(last.call)
    /\ last.call.chunk_overlap = 0
    /\ last.status = "returned"
    /\ Len(last.chunks) = 1
    /\ LineRange(last.chunks[1]) = {1}

(* C17, reachable: a line longer than chunk_size, the call never returns.   *)
C17_NeverReturns ==
    /\ last.op = "chunk_code"
    /\ LineBased(last.call)
    /\ last.call.chunk_overlap = 0
    /\ last.status = "diverged"

(***************************************************************************)
(* C18: chunking is deterministic.  Two runs of chunk_code on the same     *)
(* text, language and path with the same configuration end the same way    *)
(* and return lists of the same length whose chunks agree pairwise in      *)
(* content, metadata and chunk_id; and two chunks with identical content   *)
(* have the same chunk_id, in one run and across the two runs.             *)
(***************************************************************************)
SameChunk(a, b) ==
    /\ a.content = b.content
    /\ a.metadata = b.metadata
    /\ a.chunk_id = b.chunk_id

IdFollowsContent(as, bs) ==
    \A i \in DOMAIN as, j \in DOMAIN bs :
        as[i].content = bs[j].content => as[i].chunk_id = bs[j].chunk_id

VectorsHaveDimension(s) ==
    \A i \in 1..ntotal(s) : Len(s.index.xb[i]) = get_stats(s).dimension

C19_DimensionFixedAtConstruction ==
    [][ last'.op # "init" =>
            /\ get_stats(store').dimension = get_stats(store).dimension
            /\ VectorsHaveDimension(store') ]_vars

(* C19, reachable: a load that succeeds on a freshly constructed store     *)
(* replaces the constructed dimension by the one in the metadata artifact. *)
C19_LoadReplacesDimension ==
    /\ last.op = "load"
    /\ ~last.raised
    /\ last.fresh # 0
    /\ get_stats(store).dimension # last.fresh
    /\ VectorsHaveDimension(store)

(* C19, reachable: a load that raises at the metadata artifact leaves the  *)
(* loaded vectors under the constructed dimension.                         *)
C19_RecordsOfOtherDimension ==
    /\ last.op = "load"
    /\ last.raised
    /\ get_stats(store).dimension = last.fresh
    /\ ~VectorsHaveDimension(store)

(***************************************************************************)
(* C20: parse_query reports the intent that the query's keyword names:     *)
(* 'Find the login function' gets 'search', 'Explain how authentication    *)
(* works' gets 'explain', 'Debug this error' gets 'debug' and 'Show me an  *)
(* example' gets 'example'.                                                *)
(***************************************************************************)
C20_IntentNamedByKeyword ==
    last.op = "parse_query" =>
        \A t \in IntentTests :
            last.parsed.original_query = t.query => last.parsed.intent = t.intent

(* C20, reachable: the three other queries of the test get their intent.   *)
C20_OtherIntentsReported ==
    /\ last.op = "parse_query"
    /\ last.parsed.intent \in {"explain", "debug"}
    /\ \E t \in IntentTests :
           last.parsed.original_query = t.query /\ last.parsed.intent = t.intent

(***************************************************************************)
(* C21: when a query names one of the supported programming languages      *)
(* (one of its words, in any case, is that language and no word is another *)
(* one), the filters parse_query suggests contain 'language' equal to the  *)
(* named language, and that is the language RAGPipeline.query passes to    *)
(* the search engine when the caller gives none.                           *)
(***************************************************************************)
NamedLanguages(query) ==
    { languages[i].name : i \in { j \in DOMAIN languages :
                                      languages[j].text \in Split(Lower(query)) } }

HasLanguage(filters, name) ==
    "language" \in DOMAIN filters /\ filters["language"] = name

C21_NamedLanguageIsSuggested ==
    \A name \in { languages[i].name : i \in DOMAIN languages } :
        /\ (last.op \in {"parse_query", "rag_query"} /\ NamedLanguages(last.query) = {name})
               => HasLanguage(last.parsed.filters, name)
        /\ (last.op = "rag_query" /\ last.language = ""
               /\ NamedLanguages(last.query) = {name})
               => HasLanguage(last.search_call.filters, name)

(* C21, reachable: the query of test_filter_suggestion gets 'python', and  *)
(* the pipeline passes it on when the caller gives no language.            *)
C21_PythonSuggested ==
    /\ last.op = "rag_query"
    /\ last.language = ""
    /\ NamedLanguages(last.query) = {"python"}
    /\ HasLanguage(last.parsed.filters, "python")
    /\ HasLanguage(last.search_call.filters, "python")

(* C21, reachable: a query that names typescript is given language 'c'.    *)
C21_TypescriptTakenForC ==
    /\ last.op = "parse_query"
    /\ NamedLanguages(last.query) = {"typescript"}
    /\ HasLanguage(last.parsed.filters, "c")

(***************************************************************************)
(* C22: line-based chunking terminates for every non-empty source and      *)
(* every configuration with chunk_size >= 1 and chunk_overlap >= 0,        *)
(* including chunk_overlap >= chunk_size and sources whose average line    *)
(* length exceeds chunk_size: the call returns, and every window it turned *)
(* into a chunk holds at least one line.                                   *)
(***************************************************************************)
C22_LineChunkingTerminates ==
    (/\ last.op = "chunk_code"
     /\ LineBased(last.call)
     /\ last.call.code # <<>>
     /\ last.call.chunk_size >= 1
     /\ last.call.chunk_overlap >= 0) =>
        /\ last.status = "returned"
        /\ \A c \in 1..Len(last.chunks) : last.chunks[c].metadata.num_lines >= 1

(* C22, reachable: lines no longer than chunk_size and an overlap below    *)
(* it, the call returns.                                                   *)
C22_Returns ==
    /\ last.op = "chunk_code"
    /\ LineBased(last.call)
    /\ last.call.code # <<>>
    /\ last.call.chunk_overlap > 0
    /\ last.status = "returned"
    /\ Len(last.chunks) >= 2

(* C22, reachable: chunk_overlap >= chunk_size on a non-empty source, the  *)
(* start of the window never advances.                                     *)
C22_OverlapStopsTheWindow ==
    /\ last.op = "chunk_code"
    /\ LineBased(last.call)
    /\ last.call.code # <<>>
    /\ last.call.chunk_overlap >= last.call.chunk_size
    /\ Len(SplitLines(last.call.code)) * last.call.chunk_size >= Len(last.call.code)
    /\ last.status = "diverged"

(***************************************************************************)
(* C23: with a filter, search examines the min(10 * k, total_vectors)      *)
(* nearest neighbours and returns, in ascending distance, the first k of   *)
(* them that match the filter; it returns fewer than k results only when   *)
(* fewer than k of those neighbours match.  A neighbour matches when the   *)
(* store holds a metadata record at its position and every key of the      *)
(* filter is in that record with the filter's value.                       *)
(***************************************************************************)
NearestPositions(s, q, n) ==
    [ r \in 1..n |->
        CHOOSE p \in 0..(ntotal(s) - 1) :
            Cardinality({ o \in 0..(ntotal(s) - 1) :
                \/ SqDist(s.index.xb[o + 1], q) < SqDist(s.index.xb[p + 1], q)
                \/ SqDist(s.index.xb[o + 1], q) = SqDist(s.index.xb[p + 1], q) /\ o < p })
                = r - 1 ]

MatchingNeighbours(s, q, k, filter_dict) ==
    LET Matches(p) ==
            /\ p < Len(s.metadata_store)
            /\ \A key \in DOMAIN filter_dict :
                   /\ key \in DOMAIN s.metadata_store[p + 1]
                   /\ s.metadata_store[p + 1][key] = filter_dict[key]
    IN  SelectSeq(NearestPositions(s, q, Min(10 * k, ntotal(s))), Matches)

C23_FirstKMatchingOfWidened ==
    (last.op = "search" /\ ~last.raised /\ DOMAIN last.filter_dict # {}
        /\ ntotal(store) > 0) =>
        LET matching == MatchingNeighbours(store, last.query_vector, last.k,
                                           last.filter_dict)
        IN  /\ Len(last.results) = Min(last.k, Len(matching))
            /\ \A i \in 1..Len(last.results) :
                   /\ last.results[i].index = matching[i]
                   /\ last.results[i].metadata = store.metadata_store[matching[i] + 1]
                   /\ last.results[i].score
                          = SqDist(store.index.xb[matching[i] + 1], last.query_vector)
            /\ \A i, j \in 1..Len(last.results) :
                   i < j => last.results[i].score <= last.results[j].score

(* C23, witness: the only matching record is farther than the 10 * k       *)
(* neighbours examined, and the search returns fewer than k results.       *)
C23_Witness ==
    /\ last.op = "search"
    /\ ~last.raised
    /\ last.filter_dict = [language |-> "go"]
    /\ ntotal(store) > 10 * last.k
    /\ \E p \in 1..Len(store.metadata_store) : store.metadata_store[p] = MetaGo
    /\ last.results = <<>>

(* C23, reachable: the example, a go record and a python record searched   *)
(* with k = 1 and the filter go; the result is the go record although the  *)
(* python record is nearer.                                                *)
C23_Example ==
    /\ last.op = "search"
    /\ last.k = 1
    /\ last.filter_dict = [language |-> "go"]
    /\ store.metadata_store = <<MetaGo, MetaPy>>
    /\ Len(last.results) = 1
    /\ last.results[1].index = 0
    /\ last.results[1].metadata = MetaGo
    /\ last.results[1].score > SqDist(store.index.xb[2], last.query_vector)

(* C23, reachable: a store with more than 10 * k vectors and k matching    *)
(* records among the neighbours examined.                                  *)
C23_FullAnswerFromWidened ==
    /\ last.op = "search"
    /\ DOMAIN last.filter_dict # {}
    /\ ntotal(store) > 10 * last.k
    /\ Len(last.results) = last.k

(***************************************************************************)
(* C24: for a unit spanning the lines s..e of a file with N lines, the     *)
(* structural chunk's content is the lines max(0, s - 2)..s - 1 before the *)
(* unit, the unit's text and the lines e + 1..min(N - 1, e + 3) after it   *)
(* (up to 2 context lines before and up to 3 after, clamped to the file),  *)
(* with leading and trailing whitespace trimmed.                           *)
(***************************************************************************)
ContentWithContext(code, unit, before, after) ==
    LET lines == SplitLines(code)
        first == Max(0, unit.start_line - before)
        final == Min(Len(lines) - 1, unit.end_line + after)
    IN  Strip(Join(SubSeq(lines, first + 1, unit.start_line)) \o <<"\n">> \o unit.code
              \o <<"\n">> \o Join(SubSeq(lines, unit.end_line + 2, final + 1)))

C24_TwoLinesBeforeThreeAfter ==
    (last.op = "chunk_code" /\ Len(last.call.functions) = 1 /\ last.call.classes = <<>>) =>
        /\ last.status = "returned"
        /\ last.chunks[1].content
               = ContentWithContext(last.call.code, last.call.functions[1], 2, 3)

(* C24, reachable: the chunk holds the two lines after the unit and not    *)
(* the third one.                                                          *)
C24_TwoLinesAfter ==
    /\ last.op = "chunk_code"
    /\ Len(last.call.functions) = 1
    /\ last.call.classes = <<>>
    /\ last.chunks[1].content
           = ContentWithContext(last.call.code, last.call.functions[1], 2, 2)
    /\ last.chunks[1].content
           # ContentWithContext(last.call.code, last.call.functions[1], 2, 3)

(* C24, reachable: a unit with two lines before it, both in the chunk.     *)
C24_TwoLinesBefore ==
    /\ last.op = "chunk_code"
    /\ Len(last.call.functions) = 1
    /\ last.call.classes = <<>>
    /\ last.call.functions[1].start_line >= 2
    /\ last.chunks[1].content
           = ContentWithContext(last.call.code, last.call.functions[1], 2, 3)
    /\ last.chunks[1].content
           # ContentWithContext(last.call.code, last.call.functions[1], 1, 3)

(***************************************************************************)
(* C25: for every candidate, rerank_score = 1 / (1 + distance)             *)
(* + 0.1 * (number of distinct query terms occurring case-insensitively as *)
(* substrings of the chunk content) + type boost (function 0.3, class 0.2, *)
(* module_level 0.1, any other type 0) + 0.2 if the chunk's name contains  *)
(* a query term; the base term lies in (0, 1] and decreases as the         *)
(* distance grows.  Scores are compared as fractions of hundredths.        *)
(***************************************************************************)
SpecifiedTypeBoost(code_type) ==
    CASE code_type = "function" -> 30
      [] code_type = "class" -> 20
      [] code_type = "module_level" -> 10
      [] OTHER -> 0

SpecifiedScore(query, result, content) ==
    LET name == Get(result.metadata, "name", <<>>)
        name_boost == IF \E term \in Split(Lower(query)) : Contains(term, Lower(name))
                      THEN 20 ELSE 0
        hundredths == 10 * TermsIn(query, content)
                          + SpecifiedTypeBoost(Get(result.metadata, "type", ""))
                          + name_boost
    IN  [num |-> 100 + hundredths * (1 + result.score), den |-> 100 * (1 + result.score)]

SameFraction(a, b) == a.num * b.den = b.num * a.den

C25_ScoreIsSumOfBoosts ==
    (last.op = "retrieve" /\ ~last.raised) =>
        /\ \A i \in 1..Len(last.results) :
               /\ last.results[i].score >= 0
               /\ SameFraction(last.results[i].rerank_score,
                               SpecifiedScore(last.query, last.results[i],
                                              ContentOf(last.results[i].metadata)))
        /\ \A i, j \in 1..Len(last.results) :
               last.results[i].score < last.results[j].score
                   => 1 + last.results[i].score < 1 + last.results[j].score

(* C25, reachable: a chunk whose content holds no query term gets the      *)
(* specified score.                                                        *)
C25_ScoreWithoutTerms ==
    /\ last.op = "retrieve"
    /\ Len(last.results) >= 1
    /\ TermsIn(last.query, ContentOf(last.results[1].metadata)) = 0
    /\ SameFraction(last.results[1].rerank_score,
                    SpecifiedScore(last.query, last.results[1],
                                   ContentOf(last.results[1].metadata)))

(* C25, reachable: a chunk whose content holds a query term gets the score *)
(* of a chunk without content.                                             *)
C25_TermBoostMissing ==
    /\ last.op = "retrieve"
    /\ Len(last.results) >= 1
    /\ TermsIn(last.query, ContentOf(last.results[1].metadata)) = 1
    /\ SameFraction(last.results[1].rerank_score,
                    SpecifiedScore(last.query, last.results[1], <<>>))

(***************************************************************************)
(* C26: generate_embeddings processes the texts in consecutive batches of  *)
(* batch_size; when the provider call fails for a batch, the entries of    *)
(* that batch's texts are None, the entries of every other batch are the   *)
(* provider's embeddings of their texts, and the returned list has exactly *)
(* one entry per input text, entry i belonging to text i.  A failed batch  *)
(* is not retried: none of its chunks is in the run's insert.              *)
(***************************************************************************)
BatchOf(i, batch_size) == (i - 1) \div batch_size

C26_FailedBatchIsNoneOthersKept ==
    (last.op = "index_chunks" /\ last.chunks # <<>>) =>
        /\ Len(last.embeddings) = Len(last.chunks)
        /\ \A i \in 1..Len(last.chunks) :
               last.embeddings[i]
                   = IF BatchOf(i, last.batch_size) \in last.failing THEN None
                     ELSE provider_embedding(last.chunks[i].content)
        /\ \A c \in 1..Len(last.calls) :
               Len(last.calls[c].vectors)
                   = Cardinality({ i \in 1..Len(last.chunks) :
                                       BatchOf(i, last.batch_size) \notin last.failing })

C26_Witness ==
    /\ last.op = "index_chunks"
    /\ Len(last.chunks) >= 2
    /\ 0 \in last.failing
    /\ \E i \in 2..Len(last.chunks) :
           /\ BatchOf(i, last.batch_size) \notin last.failing
           /\ last.embeddings[i] = provider_embedding(last.chunks[i].content)
           /\ last.chunks[i].content # last.chunks[1].content
    /\ last.embeddings[1] = None
    /\ Len(last.calls) = 1

(***************************************************************************)
(* C27: after any sequence of add_vectors calls that pass ids, including   *)
(* calls that repeat an id, every id in id_to_index maps to a position     *)
(* p < total_vectors and metadata_store[p] is the metadata passed with     *)
(* that id in the most recent call that inserted it; earlier records are   *)
(* never removed or overwritten.  As a step property: a call appends its   *)
(* vectors and metadata, maps each of its ids to the position of the last  *)
(* record it passes with that id, and leaves every other id where it was.  *)
(***************************************************************************)
Lookup(map, id) == (CHOOSE item \in map : item[1] = id)[2]

LastWith(records, id) ==
    CHOOSE i \in 1..Len(records) :
        /\ records[i].id = id
        /\ \A j \in 1..Len(records) : records[j].id = id => j <= i

C27_IdsPointAtLatestRecord ==
    [][ (last'.op = "add_vectors" /\ ~last'.raised) =>
            LET records == last'.records
                called == { records[i].id : i \in 1..Len(records) }
            IN  /\ SubSeq(store'.metadata_store, 1, Len(store.metadata_store))
                       = store.metadata_store
                /\ SubSeq(store'.index.xb, 1, ntotal(store)) = store.index.xb
                /\ { item[1] : item \in store'.id_to_index }
                       = { item[1] : item \in store.id_to_index } \cup called
                /\ \A item \in store'.id_to_index :
                       /\ item[2] < ntotal(store')
                       /\ Cardinality({ o \in store'.id_to_index : o[1] = item[1] }) = 1
                       /\ item[1] \notin called => item \in store.id_to_index
                       /\ item[1] \in called =>
                              /\ item[2] = ntotal(store) + LastWith(records, item[1]) - 1
                              /\ store'.metadata_store[item[2] + 1]
                                     = records[LastWith(records, item[1])].metadata
                              /\ store'.index.xb[item[2] + 1]
                                     = records[LastWith(records, item[1])].vector ]_vars

C27_Witness ==
    /\ last.op = "add_vectors"
    /\ ~last.raised
    /\ last.start_idx >= 1
    /\ Len(last.records) = 1
    /\ last.records[1].id = "a"
    /\ store.metadata_store[1] # last.records[1].metadata
    /\ { item[1] : item \in store.id_to_index } = {"a"}
    /\ Lookup(store.id_to_index, "a") = last.start_idx
    /\ store.metadata_store[last.start_idx + 1] = last.records[1].metadata

(***************************************************************************)
(* C28: HybridRetriever.retrieve with use_keyword_search = True returns    *)
(* every distinct result that MultiStageRetriever.retrieve returns for the *)
(* same query, filter and store, for stores that the Indexer filled with   *)
(* the chunker's chunks.                                                   *)
(***************************************************************************)
C28_HybridKeepsVectorResults ==
    (last.op = "hybrid_retrieve" /\ ~last.raised /\ last.use_keyword_search) =>
        \A i \in 1..Len(last.vector_results) :
            \E j \in 1..Len(last.results) : last.results[j] = last.vector_results[i]

(* C28, reachable: without keyword search the vector results are returned  *)
(* as they are.                                                            *)
C28_VectorOnly ==
    /\ last.op = "hybrid_retrieve"
    /\ ~last.use_keyword_search
    /\ last.vector_results # <<>>
    /\ last.results = last.vector_results

(* C28, reachable: with keyword search every vector result is dropped.     *)
C28_AllDropped ==
    /\ last.op = "hybrid_retrieve"
    /\ last.use_keyword_search
    /\ Len(last.vector_results) >= 2
    /\ last.results = <<>>

(***************************************************************************)
(* C29: in structural chunking of a source with at least one unit no       *)
(* non-blank line is lost.  Every maximal run of lines outside every       *)
(* unit's span that holds a non-blank line becomes exactly one             *)
(* module_level chunk whose start_line..end_line is that run, no           *)
(* module_level chunk holds a line that a unit covers, and every non-blank *)
(* line lies in the line range of at least one returned chunk.             *)
(***************************************************************************)
CoveredLines(call) ==
    UNION { u.start_line..u.end_line :
                u \in { call.functions[i] : i \in 1..Len(call.functions) }
                       \cup { call.classes[i] : i \in 1..Len(call.classes) } }

NonBlankLines(code) ==
    { n \in 0..(Len(SplitLines(code)) - 1) :
          \E i \in 1..Len(SplitLines(code)[n + 1]) :
              SplitLines(code)[n + 1][i] \notin Whitespace }

UncoveredRuns(call) ==
    LET free == (0..(Len(SplitLines(call.code)) - 1)) \ CoveredLines(call)
    IN  { run \in { a..b : a \in free, b \in free } :
              /\ run # {}
              /\ run \subseteq free
              /\ \A n \in free : (n + 1 \in run \/ n - 1 \in run) => n \in run }

ModuleLevel(chunks) ==
    { c \in 1..Len(chunks) : chunks[c].metadata.type = "module_level" }

C29_NoNonBlankLineLost ==
    (last.op = "chunk_code" /\ Len(last.call.functions) + Len(last.call.classes) >= 1) =>
        /\ last.status = "returned"
        /\ \A run \in UncoveredRuns(last.call) :
               Cardinality({ c \in ModuleLevel(last.chunks) :
                                 LineRange(last.chunks[c]) = run })
                   = IF run \cap NonBlankLines(last.call.code) # {} THEN 1 ELSE 0
        /\ \A c \in ModuleLevel(last.chunks) :
               /\ LineRange(last.chunks[c]) \in UncoveredRuns(last.call)
               /\ LineRange(last.chunks[c]) \cap CoveredLines(last.call) = {}
        /\ \A n \in NonBlankLines(last.call.code) :
               \E c \in 1..Len(last.chunks) : n \in LineRange(last.chunks[c])

C29_Witness ==
    /\ last.op = "chunk_code"
    /\ Len(last.call.functions) = 1
    /\ Len(last.call.classes) = 1
    /\ Cardinality(ModuleLevel(last.chunks)) = 1
    /\ \E run \in UncoveredRuns(last.call) : run \cap NonBlankLines(last.call.code) = {}
    /\ \E c \in ModuleLevel(last.chunks) :
           \E n \in CoveredLines(last.call), m \in CoveredLines(last.call) :
               n < last.chunks[c].metadata.start_line /\ last.chunks[c].metadata.end_line < m

(***************************************************************************)
(* C30: FAISSVectorStore.search and MultiStageRetriever.retrieve only read *)
(* the store.  Across a call of either, the number of vectors, every       *)
(* stored metadata record (its keys and its values) and id_to_index are    *)
(* the same after the call as before it, although the retriever adds       *)
(* rerank_score, context and relevance_explanation to the candidates it    *)
(* returns: these are written on the result, never on the metadata record  *)
(* the result shares with the store.                                       *)
(***************************************************************************)
C30_ReadCall == last'.op \in {"search", "retrieve"}

C30_SearchAndRetrieveReadOnly ==
    [][C30_ReadCall =>
          /\ get_stats(store').total_vectors = get_stats(store).total_vectors
          /\ store'.index = store.index
          /\ store'.metadata_store = store.metadata_store
          /\ store'.id_to_index = store.id_to_index]_vars

\* retrieve returned candidates that carry the three added fields and that
\* share a metadata record with the store
C30_Witness ==
    /\ last.op = "retrieve"
    /\ ~last.raised
    /\ Len(last.results) >= 2
    /\ \A i \in 1..Len(last.results) :
           /\ {"rerank_score", "context", "relevance_explanation"}
                  \subseteq DOMAIN last.results[i]
           /\ last.results[i].metadata = store.metadata_store[last.results[i].index + 1]
           /\ DOMAIN last.results[i].metadata \cap
                  {"rerank_score", "context", "relevance_explanation"} = {}

\* search returned stored records
C30_SearchWitness ==
    /\ last.op = "search"
    /\ ~last.raised
    /\ Len(last.results) >= 2
    /\ \A i \in 1..Len(last.results) :
           last.results[i].metadata = store.metadata_store[last.results[i].index + 1]

====
